---- MODULE Spec2Model ----
(***************************************************************************)
(* Buffer Ring & Sequencer of the batgizmo logger                          *)
(* (data_processor_buffers.c, the version with gated recording).           *)
(*                                                                         *)
(* Two execution contexts: the acquisition interrupt, which runs           *)
(* data_processor_buffers to completion, and the main polling loop, whose  *)
(* functions are split at every access to a variable shared with the       *)
(* interrupt, so that the interrupt can preempt between any two of them.   *)
(***************************************************************************)
EXTENDS Integers, Sequences, FiniteSets, TLC

\* ------------------------------------------------------------------------
\* Program constants
\* ------------------------------------------------------------------------
NUM_BUFFERS == 37
BUFFER_DELTA == 2
MAXIMUM_READ_LEAD == 12
DATA_BUFFER_ENTRIES == (32768 * 2) \div 2
BUFFER_FIFO_LENGTH == NUM_BUFFERS * 5
BUFFERFIFO_END_SEQUENCE == -1
BUFFERFIFO_START_SEQUENCE == -2
tick_delta == 10
SETTINGS_SAMPLING_RATE_MULTIPLIER_KHZ == 48

\* ------------------------------------------------------------------------
\* Bounds of the model
\* ------------------------------------------------------------------------
\* Caps of s_unwrapped_filled_buffer_counter, one per specification: the
\* manual-mode runs go once round the ring of NUM_BUFFERS slots, the
\* triggered runs cover a pretrigger and a whole trigger window, the run
\* without a card fills the FIFO.
MaxFillManual == 39
MaxFillAuto == 11
MaxFillTrig == 3
MaxFillGated == 7
MaxFillNoCard == 186
MaxFillManualGated == 38
MaxFillIntake == 38
\* Triggers published by the detector in one behaviour.
MaxTriggers == 2
\* Interrupts that complete a slot within one call of a main-loop function
\* (a call lasts microseconds, a slot takes tens of milliseconds to fill).
MaxPreempt == 1
\* Cap of main_tick_count.
MaxTick == 20

\* Slots filled in a run that follows trigger windows to their end.
MaxFillWindow == 9

\* Mode switches in one behaviour, and slots filled in a session.
MaxSessions == 2

MaxFillSession == 1

MaxGainCalls == 4

\* Slots filled in a run that follows a deferred sequence until it is
\* written, and the fill counter up to which triggers are raised in it.
MaxFillLazy == 27

MaxTrigFill == 1

\* Half-frames published in a run of the trigger detector.
MaxHalfFrames == 4

\* Frequency buckets of a spectrum.
MaxBuckets == 3

\* Sizes of the sample blocks handed to data_processor_buffers: a whole
\* slot, half a slot, three quarters of a slot (the last one straddles
\* two slots).
SampleCounts == {DATA_BUFFER_ENTRIES, DATA_BUFFER_ENTRIES \div 2, (3 * DATA_BUFFER_ENTRIES) \div 4}

NULL == -1000

VARIABLES
    \* settings snapshot and reset arguments
    s_mode, gated_recording, s_buffers_per_second,
    min_sampling_time_s, pretrigger_time_s,
    \* ring state
    s_buffers, s_active_buffer_index, s_active_buffer_entry_count,
    s_unwrapped_filled_buffer_counter,
    s_buffer_fifo, s_buffer_fifo_next_read, s_buffer_fifo_next_write,
    s_buffer_fifo_count,
    s_is_triggered, s_trigger_unwrapped_buffer_count,
    s_final_unwrapped_buffer_for_trigger,
    s_is_gated, s_gate_released_ticks,
    s_is_new_sequence,
    \* trigger flag and main loop
    g_trigger_triggered, main_tick_count,
    \* main context: position and locals
    pc, loc,
    \* results of the last dataprocessor_buffers_get_next call
    pBuffer, should_close_file,
    \* recording layer: a gated batch has been drained
    batch_drained,
    \* history
    putLog, getLog, hist,
    \* sample acquirer: capture flag, published half-frame, generation
    \* counter, ready flag, the two halves of the raw buffer
    s_enable_capture, g_raw_half_frame, g_raw_half_frame_counter,
    g_raw_half_frame_ready, s_raw_buffer_q15,
    \* trigger detector: position and locals of trigger_main_fast_processing,
    \* history of the acquirer and the detector
    tpc, tloc, acq_hist,
    \* check_for_trigger: gain range, trigger settings, bucket powers, result
    s_logical_index, trigger_settings, fft_squared_modulus, triggered,
    \* mode switching: s_mode of mode.c, the processor registered with the
    \* acquirer, position and argument of switch_to_mode, history
    mode_s_mode, s_data_processor, mpc, mloc, mode_hist,
    \* the debounce of the mode switch in mode.c
    s_tentative_new_mode, s_tentative_tick_count,
    \* side effects: the SPI commands of gain.c and the value its last call
    \* returned; the LED requests and processor calls of process_half_frame
    gain_hist, acq_out,
    \* the recording schedule: the intervals parsed and their normalisation
    schedule

ringvars == <<s_buffers, s_active_buffer_index, s_active_buffer_entry_count,
              s_unwrapped_filled_buffer_counter>>
fifovars == <<s_buffer_fifo, s_buffer_fifo_next_read, s_buffer_fifo_next_write,
              s_buffer_fifo_count>>
trigvars == <<s_is_triggered, s_trigger_unwrapped_buffer_count,
              s_final_unwrapped_buffer_for_trigger>>
setvars == <<s_mode, gated_recording, s_buffers_per_second,
             min_sampling_time_s, pretrigger_time_s>>
acqvars == <<s_enable_capture, g_raw_half_frame, g_raw_half_frame_counter,
             g_raw_half_frame_ready, s_raw_buffer_q15, tpc, tloc, acq_hist>>
chkvars == <<s_logical_index, trigger_settings, fft_squared_modulus, triggered>>
tentvars == <<s_tentative_new_mode, s_tentative_tick_count>>
modevars == <<mode_s_mode, s_data_processor, mpc, mloc, mode_hist, tentvars>>
sidevars == <<gain_hist, acq_out, schedule>>
detvars == <<acqvars, chkvars, modevars, sidevars>>
bufvars == <<s_mode, gated_recording, s_buffers_per_second,
             min_sampling_time_s, pretrigger_time_s,
             s_buffers, s_active_buffer_index, s_active_buffer_entry_count,
             s_unwrapped_filled_buffer_counter,
             s_buffer_fifo, s_buffer_fifo_next_read, s_buffer_fifo_next_write,
             s_buffer_fifo_count,
             s_is_triggered, s_trigger_unwrapped_buffer_count,
             s_final_unwrapped_buffer_for_trigger,
             s_is_gated, s_gate_released_ticks, s_is_new_sequence,
             main_tick_count, pc, loc,
             pBuffer, should_close_file, batch_drained,
             putLog, getLog, hist>>
vars == <<bufvars, g_trigger_triggered, detvars>>

\* ------------------------------------------------------------------------
\* Helpers
\* ------------------------------------------------------------------------
MIN(a, b) == IF a < b THEN a ELSE b

Max(a, b) == IF a > b THEN a ELSE b

\* Unsigned 32-bit comparison a > b of two values held as signed integers: a
\* negative value converts to one of at least 2^31.
U32Greater(a, b) == IF (a < 0) = (b < 0) THEN a > b ELSE a < 0

\* An unsigned 32-bit difference, with every result of 2^31 or more (a
\* negative difference converted to unsigned) shown as INT32_MAX.
ToU32(x) == IF x >= 0 THEN x ELSE 2147483647

\* The float product of an integer and a settings time, truncated on
\* conversion to an integer type.  The settings times min_sampling_time_s
\* and pretrigger_time_s are held as numbers of half seconds.
TruncTimes(n, t) == (n * t) \div 2

add_and_wrap(i, delta, modulo) ==
    IF i + delta >= modulo THEN i + delta - modulo ELSE i + delta

settings_get_logger_sampling_rate(index) ==
    index * SETTINGS_SAMPLING_RATE_MULTIPLIER_KHZ * 1000

\* The FIFO as a record, for the interrupt's run-to-completion puts.
Fifo == [arr |-> s_buffer_fifo, nw |-> s_buffer_fifo_next_write,
         cnt |-> s_buffer_fifo_count, log |-> putLog]

buffer_fifo_put(F, v) ==
    [arr |-> [F.arr EXCEPT ![F.nw] = v],
     nw  |-> add_and_wrap(F.nw, 1, BUFFER_FIFO_LENGTH),
     cnt |-> F.cnt + 1,
     log |-> Append(F.log, <<v, "isr">>)]

\* ------------------------------------------------------------------------
\* Interrupt context: data_processor_buffers
\* ------------------------------------------------------------------------
\* The FIFO decisions taken when a slot has just been completed.  R is the
\* record [F, trig, gated] of the FIFO, s_is_triggered and s_is_gated.
\* Mutant of window_ended: the window closes one slot early.
window_ended_inclusive(counter, final) == counter >= final

\* The end of the trigger window, as tested on every completed slot.
window_ended(counter, final) == counter > final

\* Mutant of window_closed_flag: the end of the window leaves s_is_triggered
\* set.
window_closed_flag_kept == TRUE

\* s_is_triggered once the end of the trigger window has been reached.
window_closed_flag == FALSE

on_slot_complete(R) ==
    IF s_mode = "TRIGGERED" THEN
        IF R.trig THEN
            IF gated_recording THEN
                IF window_ended(s_unwrapped_filled_buffer_counter,
                                s_final_unwrapped_buffer_for_trigger)
                THEN [F |-> buffer_fifo_put(R.F, BUFFERFIFO_END_SEQUENCE),
                      trig |-> window_closed_flag, gated |-> TRUE]
                ELSE IF R.F.cnt >= NUM_BUFFERS + 1
                THEN [F |-> buffer_fifo_put(R.F, BUFFERFIFO_END_SEQUENCE),
                      trig |-> R.trig, gated |-> TRUE]
                ELSE [F |-> buffer_fifo_put(R.F, s_unwrapped_filled_buffer_counter),
                      trig |-> R.trig, gated |-> R.gated]
            ELSE
                IF window_ended(s_unwrapped_filled_buffer_counter,
                                s_final_unwrapped_buffer_for_trigger)
                THEN [F |-> buffer_fifo_put(R.F, BUFFERFIFO_END_SEQUENCE),
                      trig |-> window_closed_flag, gated |-> R.gated]
                ELSE [F |-> buffer_fifo_put(R.F, s_unwrapped_filled_buffer_counter),
                      trig |-> R.trig, gated |-> R.gated]
        ELSE R
    ELSE \* DATA_PROCESSOR_CONTINUOUS
        LET F1 == buffer_fifo_put(R.F, s_unwrapped_filled_buffer_counter) IN
        IF gated_recording /\ F1.cnt >= NUM_BUFFERS + 1
        THEN [F |-> buffer_fifo_put(F1, BUFFERFIFO_END_SEQUENCE),
              trig |-> R.trig, gated |-> TRUE]
        ELSE [F |-> F1, trig |-> R.trig, gated |-> R.gated]

\* Mutant of first_chunk: the block is copied whole and never split at the
\* end of the slot.
first_chunk_unsplit(entry_count, count) == count

\* samples_to_copy of the first chunk: what fits into the active slot.
first_chunk(entry_count, count) ==
    LET free_entries == DATA_BUFFER_ENTRIES - entry_count
    IN IF free_entries < count THEN free_entries ELSE count

\* Mutant of intake_paused: the gate is not tested.
intake_paused_never == FALSE

\* The test at the head of data_processor_buffers: paused while the batch is
\* written to the card.
intake_paused == gated_recording /\ s_is_gated

\* data_processor_buffers called with count samples; caller is what the
\* calling callback does outside the ring in the same interrupt.
data_processor_buffers_from(count, cap, caller) ==
    /\ intake_paused \/ s_unwrapped_filled_buffer_counter < cap
    /\ pc = "idle" \/ hist.preempts < MaxPreempt
    /\ IF intake_paused
       THEN \* paused: the samples are discarded
            /\ hist' = [hist EXCEPT !.discarded = TRUE]
            /\ caller
            /\ UNCHANGED <<setvars, ringvars, fifovars, trigvars, s_is_gated,
                           s_gate_released_ticks, s_is_new_sequence,
                           g_trigger_triggered, main_tick_count, pc, loc,
                           pBuffer, should_close_file, batch_drained,
                           putLog, getLog>>
       ELSE
        LET samples_to_copy == first_chunk(s_active_buffer_entry_count, count)
            entry1 == s_active_buffer_entry_count + samples_to_copy
            samples_remaining == count - samples_to_copy
            bufs1 == IF samples_to_copy > 0
                     THEN [s_buffers EXCEPT ![s_active_buffer_index] =
                               s_unwrapped_filled_buffer_counter]
                     ELSE s_buffers
            switch == entry1 >= DATA_BUFFER_ENTRIES
            index1 == IF switch
                      THEN (IF s_active_buffer_index + 1 >= NUM_BUFFERS
                            THEN 0 ELSE s_active_buffer_index + 1)
                      ELSE s_active_buffer_index
            entry2 == IF switch THEN 0 ELSE entry1
            R0 == [F |-> Fifo, trig |-> s_is_triggered, gated |-> s_is_gated]
            R1 == IF switch THEN on_slot_complete(R0) ELSE R0
            counter1 == IF switch THEN s_unwrapped_filled_buffer_counter + 1
                        ELSE s_unwrapped_filled_buffer_counter
            bufs2 == IF samples_remaining > 0
                     THEN [bufs1 EXCEPT ![index1] = counter1]
                     ELSE bufs1
            entry3 == IF samples_remaining > 0 THEN entry2 + samples_remaining
                      ELSE entry2
        IN
        /\ s_buffers' = bufs2
        /\ s_active_buffer_index' = index1
        /\ s_active_buffer_entry_count' = entry3
        /\ s_unwrapped_filled_buffer_counter' = counter1
        /\ s_buffer_fifo' = R1.F.arr
        /\ s_buffer_fifo_next_write' = R1.F.nw
        /\ s_buffer_fifo_count' = R1.F.cnt
        /\ putLog' = R1.F.log
        /\ s_is_triggered' = R1.trig
        /\ s_is_gated' = R1.gated
        /\ hist' = [hist EXCEPT !.samples = @ + count,
                                !.preempts = IF pc # "idle" /\ switch
                                             THEN @ + 1 ELSE @]
        /\ caller
        /\ UNCHANGED <<setvars, s_buffer_fifo_next_read,
                       s_trigger_unwrapped_buffer_count,
                       s_final_unwrapped_buffer_for_trigger,
                       s_gate_released_ticks, s_is_new_sequence,
                       g_trigger_triggered, main_tick_count, pc, loc,
                       pBuffer, should_close_file, batch_drained, getLog>>

\* The interrupt seen from the ring alone.
data_processor_buffers(count, cap) ==
    data_processor_buffers_from(count, cap, UNCHANGED detvars)

Interrupt(counts, cap) == \E count \in counts : data_processor_buffers(count, cap)

\* ------------------------------------------------------------------------
\* Main context
\* ------------------------------------------------------------------------
Loc0 == [t |-> 0, c |-> 0, a |-> 0, sc |-> 0, read |-> 0, i |-> 0, pre |-> 0,
         fin |-> 0, v |-> 0, w |-> 0, ret |-> "idle", k0 |-> 0]

\* s_buffers_per_second * settings_get()->min_sampling_time_s
min_buffers == TruncTimes(s_buffers_per_second, min_sampling_time_s)

\* s_buffers_per_second * settings_get()->pretrigger_time_s
pretrigger_buffers == TruncTimes(s_buffers_per_second, pretrigger_time_s)

\* Mutant of is_expired: the "+ 1" that excludes the slot being written is
\* forgotten.
is_expired_off_by_one(t, counter) == t < counter - NUM_BUFFERS

\* The test of dataprocessor_buffers_get_next for expired data.
is_expired(t, counter) == t < counter - NUM_BUFFERS + 1

\* The test of dataprocessor_buffers_get_next for data in the future.
is_future(t, counter) == t >= counter

\* read_buffer_index of dataprocessor_buffers_get_next.
read_buffer_index(t, counter, active) ==
    LET r0 == (t - counter) + (active - 1)
        r1 == IF r0 < 0 THEN r0 + NUM_BUFFERS ELSE r0
    IN IF r1 >= NUM_BUFFERS THEN r1 - NUM_BUFFERS ELSE r1

\* Mutant of read_lead: the write slot is always taken to be close.
read_lead_close(read, write) == 1

\* lead of dataprocessor_buffers_get_next (the comparison is unsigned).
read_lead(read, write) ==
    IF U32Greater(read, write)
    THEN ToU32(read - write)
    ELSE ToU32(read + NUM_BUFFERS - write)

\* buffer_fifo_get as one step of the main context: it touches
\* s_buffer_fifo_next_read, which the interrupt never does, and decrements
\* the count atomically.
buffer_fifo_get ==
    IF s_buffer_fifo_count > 0
    THEN /\ getLog' = Append(getLog, s_buffer_fifo[s_buffer_fifo_next_read])
         /\ s_buffer_fifo_next_read' =
                add_and_wrap(s_buffer_fifo_next_read, 1, BUFFER_FIFO_LENGTH)
         /\ s_buffer_fifo_count' = s_buffer_fifo_count - 1
    ELSE UNCHANGED <<getLog, s_buffer_fifo_next_read, s_buffer_fifo_count>>

MainFrame == UNCHANGED <<setvars, detvars, ringvars, s_is_gated>>

\* --- buffer_fifo_put called from the main context, statement by statement;
\* the token enters the FIFO, and putLog, when it is stored.
CallPut(l, v, ret) ==
    /\ pc' = "put_rd1"
    /\ loc' = [l EXCEPT !.v = v, !.ret = ret]
    /\ putLog' = putLog

PutReadIndex ==
    /\ pc = "put_rd1"
    /\ loc' = [loc EXCEPT !.w = s_buffer_fifo_next_write]
    /\ pc' = "put_st"
    /\ UNCHANGED <<fifovars, trigvars, s_gate_released_ticks, s_is_new_sequence,
                   g_trigger_triggered, main_tick_count, pBuffer,
                   should_close_file, batch_drained, putLog, getLog, hist>>
    /\ MainFrame

PutStore ==
    /\ pc = "put_st"
    /\ s_buffer_fifo' = [s_buffer_fifo EXCEPT ![loc.w] = loc.v]
    /\ putLog' = Append(putLog, <<loc.v, "main">>)
    /\ hist' = [hist EXCEPT !.rc_puts = IF loc.ret = "idle" THEN @ + 1 ELSE @]
    /\ pc' = "put_rd2"
    /\ UNCHANGED <<s_buffer_fifo_next_read, s_buffer_fifo_next_write,
                   s_buffer_fifo_count, trigvars, s_gate_released_ticks,
                   s_is_new_sequence, g_trigger_triggered, main_tick_count,
                   loc, pBuffer, should_close_file, batch_drained,
                   getLog>>
    /\ MainFrame

PutReadNext ==
    /\ pc = "put_rd2"
    /\ loc' = [loc EXCEPT !.w = s_buffer_fifo_next_write]
    /\ pc' = "put_wr"
    /\ UNCHANGED <<fifovars, trigvars, s_gate_released_ticks, s_is_new_sequence,
                   g_trigger_triggered, main_tick_count, pBuffer,
                   should_close_file, batch_drained, putLog, getLog, hist>>
    /\ MainFrame

PutWriteNext ==
    /\ pc = "put_wr"
    /\ s_buffer_fifo_next_write' = add_and_wrap(loc.w, 1, BUFFER_FIFO_LENGTH)
    /\ pc' = "put_inc"
    /\ UNCHANGED <<s_buffer_fifo, s_buffer_fifo_next_read, s_buffer_fifo_count,
                   trigvars, s_gate_released_ticks, s_is_new_sequence,
                   g_trigger_triggered, main_tick_count, loc, pBuffer,
                   should_close_file, batch_drained, putLog, getLog, hist>>
    /\ MainFrame

PutIncrement ==
    /\ pc = "put_inc"
    /\ s_buffer_fifo_count' = s_buffer_fifo_count + 1
    /\ pc' = loc.ret
    /\ loc' = IF loc.ret = "idle" THEN Loc0 ELSE loc
    /\ UNCHANGED <<s_buffer_fifo, s_buffer_fifo_next_read,
                   s_buffer_fifo_next_write, trigvars, s_gate_released_ticks,
                   s_is_new_sequence, g_trigger_triggered, main_tick_count,
                   pBuffer, should_close_file, batch_drained, putLog, getLog,
                   hist>>
    /\ MainFrame

MainPut == PutReadIndex \/ PutStore \/ PutReadNext \/ PutWriteNext \/ PutIncrement

\* --- dataprocessor_buffers_get_next, called by recording_main_processing
GNFrame ==
    /\ MainFrame
    /\ UNCHANGED <<trigvars, s_gate_released_ticks, g_trigger_triggered,
                   main_tick_count, s_buffer_fifo, s_buffer_fifo_next_write,
                   putLog>>

NoGet == UNCHANGED <<getLog, s_buffer_fifo_next_read, s_buffer_fifo_count>>

GetNextCall ==
    /\ pc = "idle"
    /\ pBuffer' = NULL
    /\ should_close_file' = FALSE
    /\ pc' = IF gated_recording /\ ~s_is_gated THEN "idle" ELSE "gn_sniff"
    /\ hist' = [hist EXCEPT !.last = IF gated_recording /\ ~s_is_gated
                                      THEN "closed" ELSE "call",
                            !.preempts = 0]
    /\ NoGet /\ GNFrame
    /\ UNCHANGED <<s_is_new_sequence, loc, batch_drained>>

GetNextSniff ==
    /\ pc = "gn_sniff"
    /\ IF s_buffer_fifo_count > 0
       THEN LET t == s_buffer_fifo[s_buffer_fifo_next_read] IN
            /\ loc' = [loc EXCEPT !.t = t]
            /\ pc' = IF t = BUFFERFIFO_END_SEQUENCE THEN "gn_end"
                     ELSE IF t = BUFFERFIFO_START_SEQUENCE THEN "gn_start"
                     ELSE "gn_stale"
       ELSE /\ pc' = "idle"
            /\ loc' = Loc0
    /\ hist' = [hist EXCEPT !.last = IF s_buffer_fifo_count > 0 THEN @ ELSE "empty"]
    /\ NoGet /\ GNFrame
    /\ UNCHANGED <<s_is_new_sequence, pBuffer, should_close_file,
                   batch_drained>>

GetNextEnd ==
    /\ pc = "gn_end"
    /\ buffer_fifo_get
    /\ s_is_new_sequence' = FALSE
    /\ should_close_file' = TRUE
    /\ batch_drained' = (batch_drained \/ gated_recording)
    /\ pc' = "idle"
    /\ loc' = Loc0
    /\ hist' = [hist EXCEPT !.last = "end"]
    /\ GNFrame
    /\ UNCHANGED pBuffer

\* Mutant of GetNextStart: consuming START ends the call with the close
\* signal set.
GetNextStartCloses ==
    /\ pc = "gn_start"
    /\ buffer_fifo_get
    /\ s_is_new_sequence' = TRUE
    /\ should_close_file' = TRUE
    /\ pc' = "idle"
    /\ hist' = [hist EXCEPT !.last = "start"]
    /\ GNFrame
    /\ UNCHANGED <<loc, pBuffer, batch_drained>>

GetNextStart ==
    /\ pc = "gn_start"
    /\ buffer_fifo_get
    /\ s_is_new_sequence' = TRUE
    /\ pc' = "gn_sniff"
    /\ hist' = [hist EXCEPT !.last = "start"]
    /\ GNFrame
    /\ UNCHANGED <<loc, pBuffer, should_close_file, batch_drained>>

GetNextStaleTest ==
    /\ pc = "gn_stale"
    /\ loc' = [loc EXCEPT !.sc = s_unwrapped_filled_buffer_counter]
    /\ pc' = IF is_expired(loc.t, s_unwrapped_filled_buffer_counter)
             THEN "gn_discard" ELSE "gn_future"
    /\ hist' = [hist EXCEPT !.last =
                   IF is_expired(loc.t, s_unwrapped_filled_buffer_counter)
                   THEN "stale" ELSE @]
    /\ NoGet /\ GNFrame
    /\ UNCHANGED <<s_is_new_sequence, pBuffer, should_close_file,
                   batch_drained>>

GetNextFutureTest ==
    /\ pc = "gn_future"
    /\ pc' = IF is_future(loc.t, s_unwrapped_filled_buffer_counter)
             THEN "gn_discard" ELSE "gn_calc"
    /\ hist' = [hist EXCEPT !.last =
                   IF is_future(loc.t, s_unwrapped_filled_buffer_counter)
                   THEN "future" ELSE @]
    /\ NoGet /\ GNFrame
    /\ UNCHANGED <<s_is_new_sequence, loc, pBuffer, should_close_file,
                   batch_drained>>

GetNextDiscard ==
    /\ pc = "gn_discard"
    /\ buffer_fifo_get
    /\ pc' = "gn_sniff"
    /\ GNFrame
    /\ UNCHANGED <<s_is_new_sequence, loc, pBuffer, should_close_file,
                   batch_drained, hist>>

\* read_buffer_index reads two plain globals that the interrupt changes;
\* the compiler is free to load them in either order.
GetNextCalcFirst ==
    /\ pc = "gn_calc"
    /\ \/ /\ loc' = [loc EXCEPT !.c = s_unwrapped_filled_buffer_counter]
          /\ pc' = "gn_calc_a"
       \/ /\ loc' = [loc EXCEPT !.a = s_active_buffer_index]
          /\ pc' = "gn_calc_c"
    /\ NoGet /\ GNFrame
    /\ UNCHANGED <<s_is_new_sequence, pBuffer, should_close_file,
                   batch_drained, hist>>

GetNextCalcSecond ==
    /\ \/ /\ pc = "gn_calc_a"
          /\ loc' = [loc EXCEPT !.a = s_active_buffer_index,
                       !.read = read_buffer_index(loc.t, loc.c, s_active_buffer_index)]
       \/ /\ pc = "gn_calc_c"
          /\ loc' = [loc EXCEPT !.c = s_unwrapped_filled_buffer_counter,
                       !.read = read_buffer_index(loc.t,
                                    s_unwrapped_filled_buffer_counter, loc.a)]
    /\ pc' = "gn_lead"
    /\ NoGet /\ GNFrame
    /\ UNCHANGED <<s_is_new_sequence, pBuffer, should_close_file,
                   batch_drained, hist>>

\* Mutant of GetNextLead: a token that has been deferred is never yielded.
GetNextLeadStalls ==
    /\ pc = "gn_lead"
    /\ IF gated_recording \/ ~s_is_new_sequence
       THEN /\ pc' = "gn_yield"
            /\ UNCHANGED <<loc, hist>>
       ELSE /\ pc' = "idle"
            /\ loc' = Loc0
            /\ hist' = [hist EXCEPT !.last = "defer"]
    /\ NoGet /\ GNFrame
    /\ UNCHANGED <<s_is_new_sequence, pBuffer, should_close_file,
                   batch_drained>>

GetNextLead ==
    /\ pc = "gn_lead"
    /\ LET lead == read_lead(loc.read, s_active_buffer_index) IN
       IF gated_recording \/ ~s_is_new_sequence \/ lead < MAXIMUM_READ_LEAD
       THEN /\ pc' = "gn_yield"
            /\ UNCHANGED <<loc, hist>>
       ELSE \* nothing ready yet
            /\ pc' = "idle"
            /\ loc' = Loc0
            /\ hist' = [hist EXCEPT !.last = "defer"]
    /\ NoGet /\ GNFrame
    /\ UNCHANGED <<s_is_new_sequence, pBuffer, should_close_file,
                   batch_drained>>

GetNextYield ==
    /\ pc = "gn_yield"
    /\ s_is_new_sequence' = FALSE
    /\ buffer_fifo_get
    /\ pBuffer' = loc.read
    /\ pc' = "idle"
    /\ loc' = Loc0
    /\ hist' = [hist EXCEPT !.last = "yield"]
    /\ GNFrame
    /\ UNCHANGED <<should_close_file, batch_drained>>

\* The steps of get_next that look at the oldest token without consuming it.
GetNextPeek ==
    \/ GetNextCall \/ GetNextSniff
    \/ GetNextStaleTest \/ GetNextFutureTest
    \/ GetNextCalcFirst \/ GetNextCalcSecond \/ GetNextLead

\* The steps of get_next on data tokens.
GetNextData == GetNextPeek \/ GetNextYield

GetNext == GetNextData \/ GetNextDiscard \/ GetNextEnd \/ GetNextStart

\* --- trigger_main_fast_processing publishes a trigger (trigger.c)
PublishTrigger ==
    /\ pc = "idle"
    /\ ~g_trigger_triggered
    /\ hist.published < MaxTriggers
    /\ g_trigger_triggered' = TRUE
    /\ hist' = [hist EXCEPT !.published = @ + 1]
    /\ UNCHANGED <<setvars, detvars, ringvars, fifovars, trigvars, s_is_gated,
                   s_gate_released_ticks, s_is_new_sequence, main_tick_count,
                   pc, loc, pBuffer, should_close_file, batch_drained,
                   putLog, getLog>>

\* --- data_processor_buffers_fast_main_processing / on_trigger
OTFrame ==
    /\ MainFrame
    /\ UNCHANGED <<s_buffer_fifo_next_read, s_gate_released_ticks,
                   s_is_new_sequence, main_tick_count, pBuffer,
                   should_close_file, batch_drained, getLog>>

OTNoFifo == UNCHANGED <<s_buffer_fifo, s_buffer_fifo_next_write,
                        s_buffer_fifo_count, putLog>>

data_processor_buffers_fast_main_processing ==
    /\ pc = "idle"
    /\ g_trigger_triggered
    /\ g_trigger_triggered' = FALSE
    /\ pc' = "ot_gate"
    /\ hist' = [hist EXCEPT !.preempts = 0]
    /\ OTFrame /\ OTNoFifo
    /\ UNCHANGED <<trigvars, loc>>

\* Mutant of OnTriggerGate: triggers are accepted as soon as the gate is
\* released.
OnTriggerGateNoHoldOff ==
    /\ pc = "ot_gate"
    /\ pc' = IF s_is_gated THEN "idle" ELSE "ot_test"
    /\ OTFrame /\ OTNoFifo
    /\ UNCHANGED <<trigvars, g_trigger_triggered, loc, hist>>

OnTriggerGate ==
    /\ pc = "ot_gate"
    /\ pc' = IF s_is_gated \/ main_tick_count < s_gate_released_ticks + tick_delta
             THEN "idle" ELSE "ot_test"
    /\ OTFrame /\ OTNoFifo
    /\ UNCHANGED <<trigvars, g_trigger_triggered, loc, hist>>

OnTriggerTest ==
    /\ pc = "ot_test"
    /\ pc' = IF s_is_triggered THEN "ot_retrig_rd" ELSE "ot_new1"
    /\ OTFrame /\ OTNoFifo
    /\ UNCHANGED <<trigvars, g_trigger_triggered, loc, hist>>

\* Mutant of retrigger_final: the window is measured from the slot of the
\* original trigger.
retrigger_final_from_trigger(counter) ==
    s_trigger_unwrapped_buffer_count + min_buffers

\* The final index a retrigger computes from the fill counter it reads.
retrigger_final(counter) == counter + min_buffers

OnTriggerRetriggerRead ==
    /\ pc = "ot_retrig_rd"
    /\ loc' = [loc EXCEPT !.c = s_unwrapped_filled_buffer_counter,
                          !.fin = retrigger_final(s_unwrapped_filled_buffer_counter)]
    /\ pc' = "ot_retrig_wr"
    /\ OTFrame /\ OTNoFifo
    /\ UNCHANGED <<trigvars, g_trigger_triggered, hist>>

OnTriggerRetriggerWrite ==
    /\ pc = "ot_retrig_wr"
    /\ s_final_unwrapped_buffer_for_trigger' = loc.fin
    /\ pc' = "idle"
    /\ loc' = Loc0
    /\ hist' = [hist EXCEPT !.seq_retrig =
                   IF loc.fin > s_final_unwrapped_buffer_for_trigger
                   THEN "extended" ELSE "same"]
    /\ OTFrame /\ OTNoFifo
    /\ UNCHANGED <<s_is_triggered, s_trigger_unwrapped_buffer_count,
                   g_trigger_triggered>>

OnTriggerNewNote ==
    /\ pc = "ot_new1"
    /\ s_trigger_unwrapped_buffer_count' = s_unwrapped_filled_buffer_counter
    /\ loc' = [loc EXCEPT !.k0 = s_unwrapped_filled_buffer_counter]
    /\ pc' = "ot_new2"
    /\ hist' = [hist EXCEPT !.seq_k = -1, !.seq_retrig = "none"]
    /\ OTFrame /\ OTNoFifo
    /\ UNCHANGED <<s_is_triggered, s_final_unwrapped_buffer_for_trigger,
                   g_trigger_triggered>>

OnTriggerNewPretrigger ==
    /\ pc = "ot_new2"
    /\ LET unexpired_buffers_available ==
               MIN(NUM_BUFFERS - BUFFER_DELTA, s_unwrapped_filled_buffer_counter)
       IN loc' = [loc EXCEPT !.pre = MIN(pretrigger_buffers,
                                         unexpired_buffers_available)]
    /\ pc' = "ot_new3"
    /\ OTFrame /\ OTNoFifo
    /\ UNCHANGED <<trigvars, g_trigger_triggered, hist>>

OnTriggerNewInitial ==
    /\ pc = "ot_new3"
    /\ loc' = [loc EXCEPT !.i = s_unwrapped_filled_buffer_counter - loc.pre]
    /\ pc' = "ot_new4"
    /\ OTFrame /\ OTNoFifo
    /\ UNCHANGED <<trigvars, g_trigger_triggered, hist>>

OnTriggerNewFinal ==
    /\ pc = "ot_new4"
    /\ CallPut([loc EXCEPT !.fin = s_unwrapped_filled_buffer_counter + min_buffers],
               BUFFERFIFO_START_SEQUENCE, "ot_loop")
    /\ OTFrame
    /\ UNCHANGED <<s_buffer_fifo, s_buffer_fifo_next_write, s_buffer_fifo_count,
                   trigvars, g_trigger_triggered, hist>>

\* for (i = initial_buffer_count; i < s_unwrapped_filled_buffer_counter; i++)
OnTriggerLoop ==
    /\ pc = "ot_loop"
    /\ IF loc.i < s_unwrapped_filled_buffer_counter
       THEN CallPut([loc EXCEPT !.i = loc.i + 1], loc.i, "ot_loop")
       ELSE /\ pc' = "ot_set"
            /\ UNCHANGED <<loc, putLog>>
    /\ OTFrame
    /\ UNCHANGED <<s_buffer_fifo, s_buffer_fifo_next_write, s_buffer_fifo_count,
                   trigvars, g_trigger_triggered, hist>>

OnTriggerSet ==
    /\ pc = "ot_set"
    /\ s_final_unwrapped_buffer_for_trigger' = loc.fin
    /\ s_is_triggered' = TRUE
    /\ pc' = "idle"
    /\ loc' = Loc0
    /\ hist' = [hist EXCEPT !.seq_k = IF loc.k0 = s_unwrapped_filled_buffer_counter
                                      THEN loc.k0 ELSE -1]
    /\ OTFrame /\ OTNoFifo
    /\ UNCHANGED <<s_trigger_unwrapped_buffer_count, g_trigger_triggered>>

OnTrigger ==
    \/ OnTriggerGate \/ OnTriggerTest
    \/ OnTriggerRetriggerRead \/ OnTriggerRetriggerWrite
    \/ OnTriggerNewNote \/ OnTriggerNewPretrigger \/ OnTriggerNewInitial
    \/ OnTriggerNewFinal \/ OnTriggerLoop \/ OnTriggerSet

\* --- data_processor_buffers_on_recording_complete, called by the
\* recording layer when it has written a gated batch to the card
RCFrame ==
    /\ UNCHANGED <<setvars, detvars, ringvars, s_buffer_fifo, s_buffer_fifo_next_read,
                   s_buffer_fifo_next_write, s_buffer_fifo_count,
                   s_is_triggered, s_trigger_unwrapped_buffer_count,
                   s_is_new_sequence, g_trigger_triggered, main_tick_count,
                   pBuffer, should_close_file, getLog>>

recording_batch_drained == batch_drained

\* Mutant of data_processor_buffers_on_recording_complete: the gate is left
\* engaged.
on_recording_complete_keeps_gate ==
    /\ pc = "idle"
    /\ recording_batch_drained
    /\ batch_drained' = FALSE
    /\ s_is_gated' = s_is_gated
    /\ s_gate_released_ticks' = main_tick_count
    /\ IF s_mode = "CONTINUOUS"
       THEN CallPut(loc, BUFFERFIFO_START_SEQUENCE, "idle")
       ELSE /\ pc' = "rc_min"
            /\ UNCHANGED <<loc, putLog>>
    /\ hist' = [hist EXCEPT !.preempts = 0, !.discarded = FALSE, !.rc_puts = 0]
    /\ RCFrame
    /\ UNCHANGED s_final_unwrapped_buffer_for_trigger

data_processor_buffers_on_recording_complete ==
    /\ pc = "idle"
    /\ recording_batch_drained
    /\ batch_drained' = FALSE
    /\ s_is_gated' = FALSE
    /\ s_gate_released_ticks' = main_tick_count
    /\ IF s_mode = "CONTINUOUS"
       THEN CallPut(loc, BUFFERFIFO_START_SEQUENCE, "idle")
       ELSE /\ pc' = "rc_min"
            /\ UNCHANGED <<loc, putLog>>
    /\ hist' = [hist EXCEPT !.preempts = 0, !.discarded = FALSE, !.rc_puts = 0]
    /\ RCFrame
    /\ UNCHANGED s_final_unwrapped_buffer_for_trigger

OnRecordingCompleteMinimum ==
    /\ pc = "rc_min"
    /\ loc' = [loc EXCEPT !.fin = s_unwrapped_filled_buffer_counter + min_buffers]
    /\ pc' = "rc_fin"
    /\ RCFrame
    /\ UNCHANGED <<s_final_unwrapped_buffer_for_trigger, s_is_gated,
                   s_gate_released_ticks, batch_drained, putLog, hist>>

OnRecordingCompleteFinal ==
    /\ pc = "rc_fin"
    /\ s_final_unwrapped_buffer_for_trigger' =
           IF s_final_unwrapped_buffer_for_trigger < loc.fin
           THEN loc.fin ELSE s_final_unwrapped_buffer_for_trigger
    /\ CallPut(loc, BUFFERFIFO_START_SEQUENCE, "idle")
    /\ RCFrame
    /\ UNCHANGED <<s_is_gated, s_gate_released_ticks, batch_drained, hist>>

OnRecordingComplete ==
    \/ data_processor_buffers_on_recording_complete
    \/ OnRecordingCompleteMinimum \/ OnRecordingCompleteFinal

\* --- the main loop's slow iteration: main_tick_count++
MainTick ==
    /\ pc = "idle"
    /\ main_tick_count < MaxTick
    /\ main_tick_count' = main_tick_count + 1
    /\ UNCHANGED <<setvars, detvars, ringvars, fifovars, trigvars, s_is_gated,
                   s_gate_released_ticks, s_is_new_sequence,
                   g_trigger_triggered, pc, loc, pBuffer, should_close_file,
                   batch_drained, putLog, getLog, hist>>

\* ------------------------------------------------------------------------
\* Initial states: data_processor_buffers_reset(mode, samples_per_second)
\* ------------------------------------------------------------------------
\* Interrupt context: the sample acquirer (HAL_ADC_ConvHalfCpltCallback,
\* HAL_ADC_ConvCpltCallback, process_half_frame)
\* ------------------------------------------------------------------------
\* The range of int on the target.
INT_MAX == 2147483647

INT_MIN == -2147483647 - 1

\* What g_raw_half_frame_counter++ can do when the counter holds INT_MAX: the
\* signed overflow is undefined; the build wraps to INT_MIN, or traps.
OverflowOutcomes == {"wrap", "trap"}

\* A half of s_raw_buffer_q15 is held as the publication that wrote it (0:
\* never written) and the set of its evaluated windows that would trigger.
RawHalf0 == [gen |-> 0, hot |-> {}]

\* The windows of a half-frame that check_each_window evaluates.
windows_to_check == 2

Windows == 0..(windows_to_check - 1)

\* g_raw_half_frame_counter++ where it is defined.
next_generation(counter) == counter + 1

\* One conversion callback for hadc1 with capture enabled: the half the DMA
\* has just filled is copied, then published.  The DMA alternates between the
\* first and the second half.  No data processor is registered.
process_half_frame(is_first_half, hot) ==
    LET buffer_offset == IF is_first_half THEN 0 ELSE 1
        n == acq_hist.published + 1
    IN  /\ s_enable_capture
        /\ ~acq_hist.halted
        /\ acq_hist.published < MaxHalfFrames
        /\ s_raw_buffer_q15' = [s_raw_buffer_q15 EXCEPT
                                   ![buffer_offset] = [gen |-> n, hot |-> hot]]
        /\ g_raw_half_frame' = buffer_offset
        /\ IF g_raw_half_frame_counter < INT_MAX
           THEN /\ g_raw_half_frame_counter' =
                       next_generation(g_raw_half_frame_counter)
                /\ g_raw_half_frame_ready' = TRUE
                /\ acq_hist' = [acq_hist EXCEPT !.published = n]
           ELSE \E outcome \in OverflowOutcomes :
                  IF outcome = "wrap"
                  THEN /\ g_raw_half_frame_counter' = INT_MIN
                       /\ g_raw_half_frame_ready' = TRUE
                       /\ acq_hist' = [acq_hist EXCEPT !.published = n]
                  ELSE /\ acq_hist' = [acq_hist EXCEPT !.published = n,
                                                       !.halted = TRUE]
                       /\ UNCHANGED <<g_raw_half_frame_counter,
                                      g_raw_half_frame_ready>>
        /\ tloc' = IF tpc \in {"ptr", "win", "cmp"}
                   THEN [tloc EXCEPT !.pubs = tloc.pubs + 1] ELSE tloc
        /\ UNCHANGED <<bufvars, g_trigger_triggered, chkvars, modevars,
                       sidevars, s_enable_capture, tpc>>

HalfFrame ==
    \E hot \in SUBSET Windows :
        process_half_frame(g_raw_half_frame # 0, hot)

\* ------------------------------------------------------------------------
\* Main context: trigger_main_fast_processing, check_each_window
\* ------------------------------------------------------------------------
\* Locals of trigger_main_fast_processing and check_each_window: count1, the
\* pointer passed to check_each_window, the window index and triggered; and
\* for the properties the publications whose data the windows were copied
\* from and the number of publications since count1 was read.
TLoc0 == [count1 |-> 0, p |-> 0, i |-> 0, triggered |-> FALSE,
          seen |-> {}, pubs |-> 0]

TrigFrame == UNCHANGED <<bufvars, chkvars, modevars, sidevars, s_enable_capture,
                         g_raw_half_frame, g_raw_half_frame_counter,
                         s_raw_buffer_q15>>

\* Mutant of same_generation: the counter is not compared.
same_generation_unchecked(counter, count1) == TRUE

\* The race test: the counter read after the evaluation against count1.
same_generation(counter, count1) == counter = count1

\* if (g_raw_half_frame_ready) g_raw_half_frame_ready = false;
TrigConsume ==
    /\ tpc = "idle" /\ ~acq_hist.halted
    /\ g_raw_half_frame_ready
    /\ g_raw_half_frame_ready' = FALSE
    /\ tpc' = "count1"
    /\ tloc' = TLoc0
    /\ UNCHANGED <<g_trigger_triggered, acq_hist>>
    /\ TrigFrame

\* int count1 = g_raw_half_frame_counter;
TrigCount1 ==
    /\ tpc = "count1" /\ ~acq_hist.halted
    /\ tloc' = [tloc EXCEPT !.count1 = g_raw_half_frame_counter]
    /\ tpc' = "ptr"
    /\ UNCHANGED <<g_trigger_triggered, g_raw_half_frame_ready, acq_hist>>
    /\ TrigFrame

\* The argument of check_each_window(g_raw_half_frame) is read.
TrigPointer ==
    /\ tpc = "ptr" /\ ~acq_hist.halted
    /\ tloc' = [tloc EXCEPT !.p = g_raw_half_frame, !.i = 0,
                            !.triggered = FALSE]
    /\ tpc' = "win"
    /\ UNCHANGED <<g_trigger_triggered, g_raw_half_frame_ready, acq_hist>>
    /\ TrigFrame

\* One pass of the loop of check_each_window: window i is copied out of the
\* raw buffer and evaluated.
TrigWindow ==
    /\ tpc = "win" /\ ~acq_hist.halted
    /\ LET half == s_raw_buffer_q15[tloc.p]
       IN tloc' = [tloc EXCEPT
                     !.seen = tloc.seen \cup {half.gen},
                     !.triggered = tloc.triggered \/ (tloc.i \in half.hot),
                     !.i = tloc.i + 1]
    /\ tpc' = IF tloc.i + 1 < windows_to_check THEN "win" ELSE "cmp"
    /\ UNCHANGED <<g_trigger_triggered, g_raw_half_frame_ready, acq_hist>>
    /\ TrigFrame

\* if (triggered) if (g_raw_half_frame_counter == count1) publish.
TrigCompare ==
    /\ tpc = "cmp" /\ ~acq_hist.halted
    /\ IF tloc.triggered
          /\ same_generation(g_raw_half_frame_counter, tloc.count1)
       THEN /\ g_trigger_triggered' = TRUE
            /\ acq_hist' = [acq_hist EXCEPT !.raised = acq_hist.raised + 1]
       ELSE UNCHANGED <<g_trigger_triggered, acq_hist>>
    /\ tpc' = "idle"
    /\ UNCHANGED <<tloc, g_raw_half_frame_ready>>
    /\ TrigFrame

trigger_main_fast_processing ==
    TrigConsume \/ TrigCount1 \/ TrigPointer \/ TrigWindow \/ TrigCompare

\* ------------------------------------------------------------------------
\* Main context: check_for_trigger and the gain range
\* ------------------------------------------------------------------------
GAIN_MIN_RANGE_INDEX == 0

GAIN_MAX_RANGE_INDEX == 4

SETTINGS_IGNORE_TRIGGER_VALUE == -1

\* The frequency buckets tested, MAX_TRIGGER_MATCH_CLAUSES in the program.
Buckets == 0..(MaxBuckets - 1)

s_gain_shifts == [range \in GAIN_MIN_RANGE_INDEX..GAIN_MAX_RANGE_INDEX |-> range]

gain_shift_for_range(range) == s_gain_shifts[range]

gain_get_shift == s_gain_shifts[s_logical_index]

\* x >> n for a q31_t: an arithmetic shift.
ShiftRight(x, n) == x \div (2 ^ n)

\* The threshold a bucket power is compared with on a gain range.
adjusted_threshold(pv, range) ==
    LET shift_for_gain == gain_shift_for_range(GAIN_MAX_RANGE_INDEX)
                              - gain_shift_for_range(range)
    IN ShiftRight(ShiftRight(pv, shift_for_gain), shift_for_gain)

\* matched, for a bucket that is enabled and not ignored.
bucket_matched(power, pv, range) == power >= adjusted_threshold(pv, range)

\* Mutant of count_in_range: max_count itself is excluded.
count_in_range_exclusive(match_count, max_count) ==
    (match_count > 0) /\ (match_count < max_count)

\* The verdict on the number of matching buckets.
count_in_range(match_count, max_count) ==
    (match_count > 0) /\ (match_count <= max_count)

\* match_count after the loop has gone through buckets i .. MaxBuckets - 1,
\* having counted match_count before.
RECURSIVE count_matches(_, _, _, _)
count_matches(freq_buckets, ps, i, match_count) ==
    IF i >= MaxBuckets THEN match_count
    ELSE IF (ps._trigger_flags[i] = FALSE)
            \/ (ps._trigger_thresholds[i] = SETTINGS_IGNORE_TRIGGER_VALUE)
         THEN count_matches(freq_buckets, ps, i + 1, match_count)
         ELSE IF bucket_matched(freq_buckets[i], ps._trigger_thresholds[i],
                                s_logical_index)
              THEN count_matches(freq_buckets, ps, i + 1, match_count + 1)
              ELSE count_matches(freq_buckets, ps, i + 1, match_count)

check_for_trigger(freq_buckets) ==
    count_in_range(count_matches(freq_buckets, trigger_settings, 0, 0),
                   trigger_settings.trigger_max_count)

ChkFrame == UNCHANGED <<bufvars, g_trigger_triggered, acqvars, modevars,
                        sidevars, trigger_settings>>

\* check_for_trigger is called on the bucket powers of a window.
CheckForTrigger ==
    /\ ~triggered.called
    /\ triggered' = [called |-> TRUE,
                     value |-> check_for_trigger(fft_squared_modulus)]
    /\ UNCHANGED <<s_logical_index, fft_squared_modulus>>
    /\ ChkFrame

\* gain_down, and the bucket powers of the next window of the same physical
\* signal: the samples are halved, the powers quartered.
GainStepDown ==
    /\ s_logical_index > GAIN_MIN_RANGE_INDEX
    /\ s_logical_index' = s_logical_index - 1
    /\ fft_squared_modulus' = [i \in Buckets |-> fft_squared_modulus[i] \div 4]
    /\ triggered' = [called |-> FALSE, value |-> FALSE]
    /\ ChkFrame

\* ------------------------------------------------------------------------
\* History kept for the properties: the samples stored so far, the outcome
\* of the last step of dataprocessor_buffers_get_next, the fill counter at
\* which the current triggered sequence was started (-1 when a slot
\* completed while on_trigger was starting it) and whether it was
\* retriggered; whether samples have been discarded since the gate engaged,
\* and the tokens enqueued by the last on_recording_complete.
Hist0 == [samples |-> 0, last |-> "none", seq_k |-> -1, seq_retrig |-> "none",
          published |-> 0, preempts |-> 0, discarded |-> FALSE, rc_puts |-> 0]

data_processor_buffers_reset(mode, samples_per_second) ==
    /\ s_mode = mode
    /\ s_buffers = [i \in 0..(NUM_BUFFERS - 1) |-> -1]
    /\ s_active_buffer_index = 0
    /\ s_active_buffer_entry_count = 0
    /\ s_is_gated = FALSE
    /\ s_gate_released_ticks = 0
    /\ s_unwrapped_filled_buffer_counter = 0
    /\ s_buffer_fifo = [i \in 0..(BUFFER_FIFO_LENGTH - 1) |-> 0]
    /\ s_buffer_fifo_next_read = 0
    /\ s_buffer_fifo_next_write = 0
    /\ s_buffer_fifo_count = 0
    /\ s_is_triggered = FALSE
    /\ s_trigger_unwrapped_buffer_count = 0
    /\ s_final_unwrapped_buffer_for_trigger = 0
    /\ s_buffers_per_second = samples_per_second \div DATA_BUFFER_ENTRIES

AcqHist0 == [published |-> 0, raised |-> 0, halted |-> FALSE]

\* data_acquisition_reset, with the trigger detector between two calls.
data_acquisition_reset ==
    /\ s_enable_capture = FALSE
    /\ g_raw_half_frame = NULL
    /\ g_raw_half_frame_counter = 0
    /\ g_raw_half_frame_ready = FALSE
    /\ s_raw_buffer_q15 = [h \in 0..1 |-> RawHalf0]
    /\ tpc = "idle"
    /\ tloc = TLoc0
    /\ acq_hist = AcqHist0

\* No SPI command issued and no value returned yet by gain.c.
GainHist0 == [calls |-> 0, cmds |-> 0, cmd |-> 0, ret |-> "none"]

\* No interval parsed and no normalisation done yet.
Schedule0 == [intervals |-> <<>>, resultant_intervals |-> <<>>,
              resultant_count |-> -1]

\* No LED request and no processor call yet by process_half_frame.
AcqOut0 == [frames |-> 0, overload |-> FALSE, dmabuffer |-> <<>>, blinks |-> 0,
            calls |-> 0, processor |-> "none", buffer_offset |-> 0]

\* gain_init and the default settings: no bucket enabled.
DetectorDefaults ==
    /\ s_logical_index = 3
    /\ gain_hist = GainHist0
    /\ acq_out = AcqOut0
    /\ schedule = Schedule0
    /\ trigger_settings =
           [_trigger_thresholds |-> [i \in Buckets |-> SETTINGS_IGNORE_TRIGGER_VALUE],
            _trigger_flags |-> [i \in Buckets |-> FALSE],
            trigger_max_count |-> 16]
    /\ fft_squared_modulus = [i \in Buckets |-> 0]
    /\ triggered = [called |-> FALSE, value |-> FALSE]

\* s_data_processor == NULL
NO_PROCESSOR == "NULL"

MODE_NONE == "MODE_NONE"

MODE_MANUAL == "MODE_MANUAL"

MODE_AUTO == "MODE_AUTO"

MODE_USB == "MODE_USB"

Modes == {MODE_NONE, MODE_MANUAL, MODE_AUTO, MODE_USB}

\* The sessions opened so far; the position the mode switch was last read
\* in and the number of consecutive readings of it up to the last one.
ModeHist0 == [sessions |-> 0, position |-> MODE_NONE, run |-> 0]

\* mode_init and data_acquisition_init: no mode open, no processor.
mode_init ==
    /\ mode_s_mode = MODE_NONE
    /\ s_data_processor = NO_PROCESSOR
    /\ mpc = "idle"
    /\ mloc = [mode |-> MODE_NONE]
    /\ mode_hist = ModeHist0
    /\ s_tentative_new_mode = MODE_NONE
    /\ s_tentative_tick_count = 0

\* A mode is open: its processor is registered.
ModeOpen(mode) ==
    /\ mode_s_mode = mode
    /\ s_data_processor = IF mode \in {MODE_MANUAL, MODE_AUTO}
                          THEN "data_processor_buffers"
                          ELSE IF mode = MODE_USB THEN "data_processor_uac"
                          ELSE NO_PROCESSOR
    /\ mpc = "idle"
    /\ mloc = [mode |-> mode]
    /\ mode_hist = ModeHist0
    /\ s_tentative_new_mode = MODE_NONE
    /\ s_tentative_tick_count = 0

BufferInit(modes, gates, rates, mins, pres, ticks) ==
    /\ \E mode \in modes, index \in rates :
          data_processor_buffers_reset(mode, settings_get_logger_sampling_rate(index))
    /\ gated_recording \in gates
    /\ min_sampling_time_s \in mins
    /\ pretrigger_time_s \in pres
    /\ main_tick_count \in ticks
    /\ s_is_new_sequence = FALSE
    /\ g_trigger_triggered = FALSE
    /\ pc = "idle"
    /\ loc = Loc0
    /\ pBuffer = NULL
    /\ should_close_file = FALSE
    /\ batch_drained = FALSE
    /\ putLog = <<>>
    /\ getLog = <<>>
    /\ hist = Hist0

InitWith(modes, gates, rates, mins, pres, ticks) ==
    /\ BufferInit(modes, gates, rates, mins, pres, ticks)
    /\ data_acquisition_reset
    /\ DetectorDefaults
    /\ ModeOpen(IF s_mode = "TRIGGERED" THEN MODE_AUTO ELSE MODE_MANUAL)

\* Manual mode, card present, trigger detector quiet: continuous recording
\* once and a bit round the ring.
InitManual == InitWith({"CONTINUOUS"}, {FALSE}, {6}, {1}, {0}, {tick_delta})

NextManual ==
    \/ Interrupt(SampleCounts, MaxFillManual)
    \/ GetNextData
    \/ GetNextDiscard

SpecManual == InitManual /\ [][NextManual]_vars

\* Auto mode, gated recording off, opened at main tick tick_delta: triggered
\* recording with pretrigger, written to the card while it is acquired.
InitAuto == InitWith({"TRIGGERED"}, {FALSE}, {6}, {1}, {1}, {tick_delta})

NextAuto ==
    \/ Interrupt({DATA_BUFFER_ENTRIES}, MaxFillAuto)
    \/ GetNextPeek
    \/ GetNextStart
    \/ PublishTrigger
    \/ data_processor_buffers_fast_main_processing
    \/ OnTrigger
    \/ MainPut

SpecAuto == InitAuto /\ [][NextAuto]_vars

\* Manual mode with the trigger detector running (trigger_main_fast_processing
\* is called in every mode): the first slots after the mode is opened.
InitManualTrig == InitWith({"CONTINUOUS"}, {FALSE}, {6}, {1}, {1}, {tick_delta})

NextManualTrig ==
    \/ Interrupt({DATA_BUFFER_ENTRIES}, MaxFillTrig)
    \/ GetNextData
    \/ GetNextStart
    \/ PublishTrigger
    \/ data_processor_buffers_fast_main_processing
    \/ OnTrigger
    \/ MainPut

SpecManualTrig == InitManualTrig /\ [][NextManualTrig]_vars

\* Auto mode with gated recording: acquire a batch, pause, write it to the
\* card, resume.
InitGated == InitWith({"TRIGGERED"}, {TRUE}, {6}, {1}, {0}, {tick_delta})

NextGated ==
    \/ Interrupt({DATA_BUFFER_ENTRIES}, MaxFillGated)
    \/ GetNextData
    \/ GetNextEnd
    \/ GetNextStart
    \/ PublishTrigger
    \/ data_processor_buffers_fast_main_processing
    \/ OnTrigger
    \/ OnRecordingComplete
    \/ MainPut
    \/ MainTick

SpecGated == InitGated /\ [][NextGated]_vars

\* Manual mode with gated recording and the trigger detector running, up to
\* the first pause.
InitManualGated == InitWith({"CONTINUOUS"}, {TRUE}, {6}, {1}, {1}, {tick_delta})

NextManualGated ==
    \/ Interrupt({DATA_BUFFER_ENTRIES}, MaxFillManualGated)
    \/ PublishTrigger
    \/ data_processor_buffers_fast_main_processing
    \/ OnTrigger
    \/ MainPut

SpecManualGated == InitManualGated /\ [][NextManualGated]_vars

\* Auto mode with gated recording, up to the first pause: a short trigger
\* window (half a second) that ends first, or a long one (five seconds) that
\* outlasts the FIFO.
InitGatedIntake ==
    InitWith({"TRIGGERED"}, {TRUE}, {6}, {1, 10}, {0}, {tick_delta})

NextGatedIntake ==
    \/ Interrupt({DATA_BUFFER_ENTRIES}, MaxFillIntake)
    \/ PublishTrigger
    \/ data_processor_buffers_fast_main_processing
    \/ OnTrigger
    \/ MainPut

SpecGatedIntake == InitGatedIntake /\ [][NextGatedIntake]_vars

\* Auto mode with gated recording within one main tick, the main loop
\* running for ever: every function it calls returns, and it calls
\* recording_main_processing and the recording layer's completion over and
\* over.
NextGatedLoop ==
    \/ Interrupt({DATA_BUFFER_ENTRIES}, MaxFillGated)
    \/ GetNextData
    \/ GetNextEnd
    \/ GetNextStart
    \/ PublishTrigger
    \/ data_processor_buffers_fast_main_processing
    \/ OnTrigger
    \/ OnRecordingComplete
    \/ MainPut

MainLoopRuns ==
    /\ WF_vars(pc # "idle" /\ NextGatedLoop)
    /\ SF_vars(GetNextCall)
    /\ SF_vars(data_processor_buffers_on_recording_complete)

SpecGatedLoop == InitGated /\ [][NextGatedLoop]_vars /\ MainLoopRuns

\* Manual mode with no card in the slot: recording_main_processing does not
\* call get_next, the interrupt keeps filling slots.
NextNoCard == Interrupt({DATA_BUFFER_ENTRIES}, MaxFillNoCard)

SpecNoCard == InitManual /\ [][NextNoCard]_vars

\* ------------------------------------------------------------------------
\* Properties
\* ------------------------------------------------------------------------
\* The values passed to buffer_fifo_put, in call order.
PutTokens == [i \in 1..Len(putLog) |-> putLog[i][1]]

\* The contexts buffer_fifo_put was called from, in call order.
PutContexts == [i \in 1..Len(putLog) |-> putLog[i][2]]

IsData(t) == t # BUFFERFIFO_START_SEQUENCE /\ t # BUFFERFIFO_END_SEQUENCE

\* C1: while intake is not gated, dataprocessor_buffers_get_next never
\* returns the slot that is the active write slot at the moment it returns.
C1_NeverYieldsActiveSlot ==
    [][(pc = "gn_yield" /\ pc' = "idle" /\ ~s_is_gated')
        => pBuffer' # s_active_buffer_index']_vars

\* C3: in continuous non-gated mode, after S samples have been appended
\* since reset, exactly S div DATA_BUFFER_ENTRIES tokens have been enqueued,
\* they are 0, 1, 2, ... in order, the active slot holds S mod
\* DATA_BUFFER_ENTRIES samples, and the physical slot index is the number of
\* filled slots modulo NUM_BUFFERS while the unwrapped counter keeps growing.
C3_AppendFillsAndRotates ==
    (s_mode = "CONTINUOUS" /\ ~gated_recording) =>
        LET n == hist.samples \div DATA_BUFFER_ENTRIES IN
        /\ Len(putLog) = n
        /\ \A i \in 1..n : putLog[i] = <<i - 1, "isr">>
        /\ s_active_buffer_entry_count = hist.samples % DATA_BUFFER_ENTRIES
        /\ s_active_buffer_index = n % NUM_BUFFERS
        /\ s_unwrapped_filled_buffer_counter = n

\* Witness of C3: the ring has wrapped (more than NUM_BUFFERS slots filled,
\* physical index back at 1) and the active slot is partly filled.
C3_Witness ==
    /\ s_mode = "CONTINUOUS" /\ ~gated_recording
    /\ s_unwrapped_filled_buffer_counter = NUM_BUFFERS + 1
    /\ s_active_buffer_index = 1
    /\ s_active_buffer_entry_count = (3 * DATA_BUFFER_ENTRIES) \div 4
    /\ Len(putLog) = NUM_BUFFERS + 1

\* C10: a token t that the staleness test of dataprocessor_buffers_get_next
\* finds below fill counter - NUM_BUFFERS + 1 is removed from the FIFO
\* without being returned, the call goes on with the next token, and no
\* token is yielded that was below that limit when it was tested.
C10_StaleTokenDiscarded ==
    [][/\ (pc = "gn_stale" /\ pc' # pc
           /\ loc.t < s_unwrapped_filled_buffer_counter - NUM_BUFFERS + 1)
          => (pc' = "gn_discard" /\ pBuffer' = NULL)
       /\ (pc = "gn_discard" /\ pc' # pc)
          => /\ pc' = "gn_sniff"
             /\ pBuffer' = NULL /\ ~should_close_file'
             /\ s_buffer_fifo_count' = s_buffer_fifo_count - 1
             /\ getLog' = Append(getLog, loc.t)
       /\ (pc = "gn_yield" /\ pc' = "idle")
          => ~(loc.t < loc.sc - NUM_BUFFERS + 1)
      ]_vars

\* Witness of C10: a stale token has just been discarded and the call is
\* about to examine the next one.
C10_Witness ==
    /\ pc = "gn_sniff"
    /\ hist.last = "stale"
    /\ Len(getLog) > 0
    /\ getLog[Len(getLog)] < s_unwrapped_filled_buffer_counter - NUM_BUFFERS + 1
    /\ s_buffer_fifo_count > 0

\* The index in putLog of the START token that opened the sequence being
\* enqueued, 0 when there is none.
LastStart ==
    CHOOSE i \in 0..Len(putLog) :
        /\ i = 0 \/ PutTokens[i] = BUFFERFIFO_START_SEQUENCE
        /\ \A j \in (i + 1)..Len(putLog) : PutTokens[j] # BUFFERFIFO_START_SEQUENCE

\* START, first, first+1, ..., last, END
WholeSequence(first, last) ==
    <<BUFFERFIFO_START_SEQUENCE>>
        \o [j \in 1..(last - first + 1) |-> first + j - 1]
        \o <<BUFFERFIFO_END_SEQUENCE>>

\* C2: triggered mode, gated recording off, a new trigger handled while the
\* fill counter is k, pretrigger of p slots with p < k and
\* p <= NUM_BUFFERS - BUFFER_DELTA, no retrigger: the tokens enqueued from
\* the START on are a prefix of START, k-p, ..., k-1, k, ..., F, END with
\* F = k + buffers_per_second * min_sampling_time_s while the sequence is
\* open, and exactly that sequence once it has ended.
C2_TriggeredSequence ==
    LET k == hist.seq_k
        p == (s_buffers_per_second * pretrigger_time_s) \div 2
        F == k + (s_buffers_per_second * min_sampling_time_s) \div 2
        seq == SubSeq(PutTokens, LastStart, Len(putLog))
        exp == WholeSequence(k - p, F)
    IN (/\ s_mode = "TRIGGERED" /\ ~gated_recording
        /\ k >= 0 /\ hist.seq_retrig = "none"
        /\ p < k /\ p <= NUM_BUFFERS - BUFFER_DELTA)
       => /\ LastStart > 0
          /\ IF s_is_triggered
             THEN /\ Len(seq) < Len(exp)
                  /\ seq = SubSeq(exp, 1, Len(seq))
             ELSE seq = exp

\* Witness of C2: a sequence with a pretrigger, started at a fill counter
\* beyond the pretrigger and never retriggered, has been closed by END.
C2_Witness ==
    /\ s_mode = "TRIGGERED" /\ ~gated_recording
    /\ hist.seq_k > (s_buffers_per_second * pretrigger_time_s) \div 2
    /\ (s_buffers_per_second * pretrigger_time_s) \div 2 > 0
    /\ hist.seq_retrig = "none"
    /\ ~s_is_triggered
    /\ pc = "idle"
    /\ Len(putLog) > 0
    /\ PutTokens[Len(putLog)] = BUFFERFIFO_END_SEQUENCE

\* C4: buffer_fifo_put is called from interrupt context only; no main-loop
\* operation calls it.
C4_PutOnlyFromInterrupt ==
    \A i \in 1..Len(putLog) : PutContexts[i] = "isr"

\* C5: the tokens the consumer has taken from the FIFO are the values passed
\* to buffer_fifo_put, in the same order: none lost, duplicated or
\* overwritten.
C5_FifoIsTheSequencePut ==
    /\ Len(getLog) <= Len(putLog)
    /\ \A i \in 1..Len(getLog) : getLog[i] = PutTokens[i]

\* C6: the FIFO occupancy never exceeds BUFFER_FIFO_LENGTH, whatever the
\* consumer does.
C6_FifoNeverOverflows == s_buffer_fifo_count <= BUFFER_FIFO_LENGTH

\* C7: a trigger handled while s_is_triggered is set makes the final index
\* the larger of the previous final index and fill counter +
\* buffers_per_second * min_sampling_time_s, never moves it backwards and
\* enqueues no token.
C7_RetriggerExtends ==
    [][/\ (pc = "ot_retrig_rd" /\ pc' # pc) => putLog' = putLog
       /\ (pc = "ot_retrig_wr" /\ pc' # pc) =>
            /\ s_final_unwrapped_buffer_for_trigger' =
                   Max(s_final_unwrapped_buffer_for_trigger,
                       loc.c + (s_buffers_per_second * min_sampling_time_s) \div 2)
            /\ s_final_unwrapped_buffer_for_trigger' >=
                   s_final_unwrapped_buffer_for_trigger
            /\ putLog' = putLog]_vars

\* Witness of C7: a retrigger has been handled during an open sequence and
\* has moved the final index beyond the one of the original trigger.
C7_Witness ==
    /\ pc = "idle"
    /\ s_is_triggered
    /\ hist.seq_retrig = "extended"
    /\ s_final_unwrapped_buffer_for_trigger >
           s_trigger_unwrapped_buffer_count
               + (s_buffers_per_second * min_sampling_time_s) \div 2

\* C8: in the order of the calls of buffer_fifo_put, the data tokens between
\* a START token and the next END token are strictly increasing.
C8_DataTokensIncrease ==
    \A b \in 1..Len(putLog) : \A e \in (b + 1)..Len(putLog) :
        (/\ PutTokens[b] = BUFFERFIFO_START_SEQUENCE
         /\ PutTokens[e] = BUFFERFIFO_END_SEQUENCE
         /\ \A x \in (b + 1)..(e - 1) : PutTokens[x] # BUFFERFIFO_END_SEQUENCE)
        => \A i \in (b + 1)..(e - 1) : \A j \in (i + 1)..(e - 1) :
               (IsData(PutTokens[i]) /\ IsData(PutTokens[j]))
               => PutTokens[i] < PutTokens[j]

\* The index of the last control token before position i, 0 when none.
PreviousControl(i) ==
    CHOOSE c \in 0..(i - 1) :
        /\ c = 0 \/ ~IsData(PutTokens[c])
        /\ \A x \in (c + 1)..(i - 1) : IsData(PutTokens[x])

\* C9: in triggered mode the control tokens are well bracketed: the first is
\* START, START and END alternate, every data token follows a START that
\* has not been closed.
C9_WellBracketed ==
    s_mode = "TRIGGERED" =>
        \A i \in 1..Len(putLog) :
            LET c == PreviousControl(i) IN
            IF PutTokens[i] = BUFFERFIFO_START_SEQUENCE
            THEN c = 0 \/ PutTokens[c] = BUFFERFIFO_END_SEQUENCE
            ELSE c > 0 /\ PutTokens[c] = BUFFERFIFO_START_SEQUENCE

\* C11: whenever dataprocessor_buffers_get_next yields the slot of a data
\* token t, the number of slots completed since t (fill counter - t) is
\* below NUM_BUFFERS - BUFFER_DELTA.
C11_ReadDistanceBelowMargin ==
    [][(pc = "gn_yield" /\ pc' = "idle")
        => s_unwrapped_filled_buffer_counter - loc.t
               < NUM_BUFFERS - BUFFER_DELTA]_vars

\* C12: in continuous mode (gated recording off) trigger events have no
\* effect on the FIFO: the tokens enqueued are the indices of the completed
\* slots, each exactly once, in increasing order, with no START token.
C12_ContinuousIgnoresTriggers ==
    (s_mode = "CONTINUOUS" /\ ~gated_recording) =>
        /\ Len(putLog) = s_unwrapped_filled_buffer_counter
        /\ \A i \in 1..Len(putLog) : PutTokens[i] = i - 1

\* A step of dataprocessor_buffers_get_next that returns to the caller.
GetNextReturns ==
    /\ pc' = "idle"
    /\ \/ pc \in {"gn_sniff", "gn_end", "gn_start", "gn_lead", "gn_yield"}
       \/ GetNextCall

\* C13: dataprocessor_buffers_get_next returns true if and only if the call
\* consumed an END token, and then *pBuffer is NULL; a call that yields a
\* buffer returns false; consuming START does not end the call.
C13_TrueOnlyOnEnd ==
    [][/\ GetNextReturns =>
            /\ should_close_file' <=>
                 (/\ getLog' = Append(getLog, BUFFERFIFO_END_SEQUENCE)
                  /\ pc = "gn_end")
            /\ should_close_file' => pBuffer' = NULL
            /\ pBuffer' # NULL => ~should_close_file'
       /\ getLog' = Append(getLog, BUFFERFIFO_END_SEQUENCE) =>
            (pc' = "idle" /\ should_close_file')
       /\ getLog' = Append(getLog, BUFFERFIFO_START_SEQUENCE) =>
            (pc' = "gn_sniff" /\ ~should_close_file')]_vars

\* Witness of C13: a call has consumed START and yielded a buffer, and a
\* later call has consumed END and returned true with no buffer.
C13_Witness ==
    /\ pc = "idle"
    /\ hist.last = "end"
    /\ should_close_file
    /\ pBuffer = NULL
    /\ Len(getLog) >= 3
    /\ getLog[1] = BUFFERFIFO_START_SEQUENCE
    /\ IsData(getLog[2])
    /\ getLog[Len(getLog)] = BUFFERFIFO_END_SEQUENCE

C14_FullTriggered ==
    /\ s_mode = "TRIGGERED" /\ s_is_gated /\ s_is_triggered
    /\ s_buffer_fifo_count >= NUM_BUFFERS + 2
    /\ putLog[Len(putLog)] = <<BUFFERFIFO_END_SEQUENCE, "isr">>

\* C15: with gated recording, from the moment the gate engages until
\* data_processor_buffers_on_recording_complete is called, a call of
\* data_processor_buffers discards its samples and changes nothing: not the
\* active slot, the entry count, the fill counter, the FIFO or the trigger
\* state; while the gate stays engaged the ring does not move and the
\* interrupt enqueues nothing.
C15_PausedIntakeDiscards ==
    [][/\ (gated_recording /\ s_is_gated /\ hist' # hist
              /\ hist'.samples = hist.samples /\ hist'.discarded
              /\ hist'.rc_puts = hist.rc_puts /\ hist'.last = hist.last
              /\ pc' = pc /\ getLog' = getLog)
            => UNCHANGED <<ringvars, fifovars, trigvars, s_is_gated, putLog>>
       /\ (gated_recording /\ s_is_gated /\ s_is_gated')
            => /\ UNCHANGED ringvars
               /\ hist'.samples = hist.samples
               /\ Len(putLog') > Len(putLog)
                     => putLog'[Len(putLog')][2] = "main"]_vars

\* Witness of C15: samples have been offered and discarded while the gate
\* is engaged.
C15_Witness ==
    /\ gated_recording /\ s_is_gated
    /\ hist.discarded
    /\ pc = "idle"

\* What C16 says of the steps: the call clears the gate, the call enqueues
\* START once and nothing else before it returns, and samples appended
\* while the gate is clear are stored.
C16_ReleaseSteps ==
    [][/\ data_processor_buffers_on_recording_complete => ~s_is_gated'
       /\ (pc = "put_st" /\ pc' # pc /\ loc.ret = "idle") =>
            /\ hist.rc_puts = 0
            /\ putLog' = Append(putLog, <<BUFFERFIFO_START_SEQUENCE, "main">>)
       /\ (pc = "put_inc" /\ pc' = "idle" /\ loc.ret = "idle") =>
            hist.rc_puts = 1
       /\ (~s_is_gated /\ hist'.samples > hist.samples) =>
            <<s_active_buffer_entry_count, s_unwrapped_filled_buffer_counter>>'
                # <<s_active_buffer_entry_count, s_unwrapped_filled_buffer_counter>>
      ]_vars

\* C16: data_processor_buffers_on_recording_complete clears the gate and
\* enqueues exactly one START token, after which appended samples are stored
\* again; when it is called after every gate engagement, intake does not
\* stay paused for ever.
C16_ReleaseResumesIntake ==
    /\ C16_ReleaseSteps
    /\ s_is_gated ~> ~s_is_gated

\* Witness of C16: a batch was closed, on_recording_complete has returned
\* after enqueueing its START, and a slot has been stored since.
C16_Witness ==
    /\ pc = "idle"
    /\ ~s_is_gated
    /\ hist.rc_puts = 1
    /\ \E i \in 2..(Len(putLog) - 1) :
          /\ IsData(PutTokens[i - 1])
          /\ putLog[i] = <<BUFFERFIFO_END_SEQUENCE, "isr">>
          /\ putLog[i + 1] = <<BUFFERFIFO_START_SEQUENCE, "main">>
          /\ s_unwrapped_filled_buffer_counter > PutTokens[i - 1] + 2


\* ------------------------------------------------------------------------
\* The sample acquirer and the trigger detector
\* ------------------------------------------------------------------------
\* Values of g_raw_half_frame_counter at which a behaviour starts: just
\* after a reset, and after INT_MAX - 2 publications.
StartCounters == {0, INT_MAX - 2}

\* Capture enabled, the detector between two calls, the last ready flag
\* consumed.
InitTrigger ==
    /\ BufferInit({"TRIGGERED"}, {FALSE}, {6}, {1}, {0}, {tick_delta})
    /\ DetectorDefaults
    /\ mode_init
    /\ s_enable_capture = TRUE
    /\ g_raw_half_frame_counter \in StartCounters
    /\ g_raw_half_frame = IF g_raw_half_frame_counter = 0 THEN NULL ELSE 0
    /\ g_raw_half_frame_ready = FALSE
    /\ s_raw_buffer_q15 = [h \in 0..1 |-> RawHalf0]
    /\ tpc = "idle"
    /\ tloc = TLoc0
    /\ acq_hist = AcqHist0

NextTrigger ==
    \/ HalfFrame
    \/ TrigConsume
    \/ TrigCount1
    \/ TrigPointer
    \/ TrigWindow
    \/ TrigCompare

SpecTrigger == InitTrigger /\ [][NextTrigger]_vars

\* C17: every half-frame completion with capture enabled increments
\* g_raw_half_frame_counter by exactly 1, so the counter is strictly
\* increasing between resets.
C17_GenerationIncrements ==
    [][(acq_hist'.published # acq_hist.published)
         => /\ g_raw_half_frame_counter' > g_raw_half_frame_counter
            /\ g_raw_half_frame_counter' - g_raw_half_frame_counter = 1]_vars

\* C18: trigger_main_fast_processing sets g_trigger_triggered only when the
\* counter read after the evaluation equals count1; when a half-frame was
\* published during the evaluation no flag is published for that cycle, so
\* a flag always comes from windows of one publication that is still in the
\* raw buffer.
C18_FlagOnlyFromStableHalf ==
    [][LET raised == acq_hist'.raised > acq_hist.raised
       IN /\ (g_trigger_triggered' # g_trigger_triggered) => raised
          /\ raised => /\ tpc = "cmp"
                       /\ g_trigger_triggered'
                       /\ g_raw_half_frame_counter = tloc.count1
                       /\ tloc.pubs = 0
                       /\ tloc.seen = {s_raw_buffer_q15[tloc.p].gen}
          /\ (tpc = "cmp" /\ tloc.pubs > 0) => ~raised]_vars

\* A cycle that evaluated to triggered while a half-frame was published has
\* ended without a flag.
C18_Witness ==
    /\ tpc = "idle"
    /\ tloc.triggered
    /\ tloc.pubs > 0
    /\ Cardinality(tloc.seen) = 2
    /\ ~g_trigger_triggered

\* ------------------------------------------------------------------------
\* check_for_trigger over bounded spectra and settings
\* ------------------------------------------------------------------------
\* Configured thresholds: ignored, 0 dB (4.5 squared, truncated), 0.75 dB;
\* and bucket powers at the gain range the behaviour starts on.
ThresholdValues == {SETTINGS_IGNORE_TRIGGER_VALUE, 20, 23}

PowerValues == {5, 20, 64}

\* A bucket's flag and threshold: disabled, enabled and ignored, enabled.
BucketSettings ==
    {<<FALSE, 20>>} \cup {<<TRUE, pv>> : pv \in ThresholdValues}

InitCheck ==
    /\ BufferInit({"TRIGGERED"}, {FALSE}, {6}, {1}, {0}, {tick_delta})
    /\ data_acquisition_reset
    /\ mode_init
    /\ gain_hist = GainHist0
    /\ acq_out = AcqOut0
    /\ schedule = Schedule0
    /\ s_logical_index \in GAIN_MIN_RANGE_INDEX..GAIN_MAX_RANGE_INDEX
    /\ \E bs \in [Buckets -> BucketSettings], max \in 1..MaxBuckets :
          trigger_settings =
              [_trigger_thresholds |-> [i \in Buckets |-> bs[i][2]],
               _trigger_flags |-> [i \in Buckets |-> bs[i][1]],
               trigger_max_count |-> max]
    /\ fft_squared_modulus \in [Buckets -> PowerValues]
    /\ triggered = [called |-> FALSE, value |-> FALSE]

NextCheck ==
    \/ CheckForTrigger
    \/ GainStepDown

SpecCheck == InitCheck /\ [][NextCheck]_vars

\* The buckets that are enabled, not ignored, and whose power is at least
\* the adjusted threshold.
MatchingBuckets ==
    {i \in Buckets :
        /\ trigger_settings._trigger_flags[i]
        /\ trigger_settings._trigger_thresholds[i] # SETTINGS_IGNORE_TRIGGER_VALUE
        /\ fft_squared_modulus[i]
              >= adjusted_threshold(trigger_settings._trigger_thresholds[i],
                                    s_logical_index)}

\* C19: check_for_trigger returns true iff the number of enabled,
\* non-ignored buckets whose power is at least the adjusted threshold is
\* greater than 0 and at most trigger_max_count.
C19_TriggeredIffCountInRange ==
    triggered.called =>
        (triggered.value <=>
            /\ Cardinality(MatchingBuckets) > 0
            /\ Cardinality(MatchingBuckets) <= trigger_settings.trigger_max_count)

\* Exactly trigger_max_count buckets match, and the result is true.
C19_Witness ==
    /\ triggered.called
    /\ Cardinality(MatchingBuckets) = trigger_settings.trigger_max_count
    /\ triggered.value

\* One more bucket than trigger_max_count matches, and the result is false.
C19_OneTooMany ==
    /\ triggered.called
    /\ Cardinality(MatchingBuckets) = trigger_settings.trigger_max_count + 1
    /\ ~triggered.value

\* C20: for a fixed physical signal (a range lower, every bucket power is a
\* quarter) a bucket's match decision against the adjusted threshold is the
\* same at every gain range.
C20_GainInvariantDecision ==
    [][(s_logical_index' = s_logical_index - 1)
         => \A i \in Buckets :
              (/\ trigger_settings._trigger_flags[i]
               /\ trigger_settings._trigger_thresholds[i]
                      # SETTINGS_IGNORE_TRIGGER_VALUE)
              => (bucket_matched(fft_squared_modulus'[i],
                                 trigger_settings._trigger_thresholds[i],
                                 s_logical_index')
                  <=> bucket_matched(fft_squared_modulus[i],
                                     trigger_settings._trigger_thresholds[i],
                                     s_logical_index))]_vars

\* C21: the trigger state (s_is_triggered, the trigger index, the final
\* index) is written only by main-loop code: a call of
\* data_processor_buffers leaves all of it unchanged.
C21_InterruptLeavesTriggerState ==
    [][(hist'.samples # hist.samples) => UNCHANGED trigvars]_vars

\* ------------------------------------------------------------------------
\* Auto mode, gated recording off, slots completing for as long as the
\* bound allows: trigger windows followed to their end.
\* ------------------------------------------------------------------------
NextWindow ==
    \/ Interrupt({DATA_BUFFER_ENTRIES}, MaxFillWindow)
    \/ PublishTrigger
    \/ data_processor_buffers_fast_main_processing
    \/ OnTrigger
    \/ MainPut

\* The ADC keeps converting: the interrupt keeps running.
SlotsKeepCompleting == WF_vars(Interrupt({DATA_BUFFER_ENTRIES}, MaxFillWindow))

SpecWindow == InitAuto /\ [][NextWindow]_vars /\ SlotsKeepCompleting

\* The ring is triggered, no trigger flag is pending or being handled, no
\* further one will be raised, and the window ends within the bound.
C22_NoFurtherTrigger ==
    /\ s_is_triggered
    /\ ~g_trigger_triggered
    /\ pc = "idle"
    /\ hist.published = MaxTriggers
    /\ s_final_unwrapped_buffer_for_trigger + 1 < MaxFillWindow

\* The window has been closed: END is the last token enqueued.
C22_WindowClosed ==
    /\ ~s_is_triggered
    /\ Len(putLog) > 0
    /\ putLog[Len(putLog)][1] = BUFFERFIFO_END_SEQUENCE

\* C22: in triggered non-gated mode, when the ring is triggered and no
\* further trigger flag is raised, then provided slots keep completing an
\* END token is eventually enqueued and s_is_triggered becomes false.
C22_WindowTimesOut == C22_NoFurtherTrigger ~> C22_WindowClosed

\* The window was extended by a retrigger and has then been closed.
C22_Witness ==
    /\ C22_WindowClosed
    /\ hist.published = MaxTriggers
    /\ hist.seq_retrig = "extended"
    /\ s_unwrapped_filled_buffer_counter = s_final_unwrapped_buffer_for_trigger + 2

\* ------------------------------------------------------------------------
\* Auto mode, gated recording off: a sequence triggered just after the mode
\* is opened, deferred by the consumer and then written.
\* ------------------------------------------------------------------------
\* The trigger detector fires in the first slots only.
PublishTriggerEarly ==
    /\ s_unwrapped_filled_buffer_counter <= MaxTrigFill
    /\ PublishTrigger

\* recording_main_processing in the fast loop: the loop calls
\* data_processor_buffers_fast_main_processing right after
\* trigger_main_fast_processing, so no trigger flag is pending when it comes
\* round to dataprocessor_buffers_get_next.
RecordingLazy ==
    /\ ~g_trigger_triggered
    /\ (GetNextData \/ GetNextStart \/ GetNextEnd)

\* A slot takes tens of milliseconds to fill: none completes between
\* trigger_main_fast_processing raising the flag and the next statement of
\* the loop, the call of data_processor_buffers_fast_main_processing.
InterruptLazy ==
    /\ ~g_trigger_triggered
    /\ Interrupt({DATA_BUFFER_ENTRIES}, MaxFillLazy)

NextLazy ==
    \/ InterruptLazy
    \/ RecordingLazy
    \/ PublishTriggerEarly
    \/ data_processor_buffers_fast_main_processing
    \/ OnTrigger
    \/ MainPut

SpecLazy == InitAuto /\ [][NextLazy]_vars

\* The lead of a read slot over the write slot, modulo NUM_BUFFERS.
LeadOver(read, write) == (read - write + NUM_BUFFERS) % NUM_BUFFERS

\* The tokens consumed so far end with a START followed by at least one
\* data token: a data token of the current sequence has been yielded.
YieldedInSequence ==
    \E i \in 1..Len(getLog) :
        /\ getLog[i] = BUFFERFIFO_START_SEQUENCE
        /\ i < Len(getLog)
        /\ \A j \in (i + 1)..Len(getLog) : getLog[j] >= 0

\* The last token consumed is a START.
AfterStart ==
    /\ Len(getLog) > 0
    /\ getLog[Len(getLog)] = BUFFERFIFO_START_SEQUENCE

\* C23: in non-gated mode the first data token after a START is not yielded
\* while the lead of the read slot over the write slot is at least
\* MAXIMUM_READ_LEAD; once a data token of a sequence has been yielded, a
\* later token of the sequence that reaches the lead test is yielded by
\* that call whatever the lead.
C23_DeferThenStream ==
    [][/\ (~gated_recording /\ AfterStart /\ pc = "gn_yield" /\ pc' = "idle")
          => LeadOver(pBuffer', s_active_buffer_index) < MAXIMUM_READ_LEAD
       /\ (~gated_recording /\ YieldedInSequence
              /\ pc = "gn_lead" /\ pc' # "gn_lead")
          => pc' = "gn_yield"
       /\ (~gated_recording /\ hist'.last = "defer" /\ hist.last # "defer")
          => AfterStart]_vars

\* The second data token of a sequence has been yielded at a lead of
\* MAXIMUM_READ_LEAD or more, after the first one had been deferred.
C23_Witness ==
    /\ ~gated_recording
    /\ hist.last = "yield"
    /\ Len(getLog) >= 3
    /\ getLog[Len(getLog) - 2] = BUFFERFIFO_START_SEQUENCE
    /\ LeadOver(pBuffer, s_active_buffer_index) >= MAXIMUM_READ_LEAD

\* ------------------------------------------------------------------------
\* Mode switching: mode_main_processing, switch_to_mode, the mode drivers
\* ------------------------------------------------------------------------
\* data_processor_buffers_reset as a call on a ring that has been used: the
\* statements of the function, and nothing else.
data_processor_buffers_reset_call(mode, samples_per_second) ==
    /\ s_mode' = mode
    /\ s_active_buffer_index' = 0
    /\ s_active_buffer_entry_count' = 0
    /\ s_is_gated' = FALSE
    /\ s_gate_released_ticks' = 0
    /\ s_unwrapped_filled_buffer_counter' = 0
    /\ s_buffer_fifo_next_read' = 0
    /\ s_buffer_fifo_next_write' = 0
    /\ s_buffer_fifo_count' = 0
    /\ s_is_triggered' = FALSE
    /\ s_trigger_unwrapped_buffer_count' = 0
    /\ s_final_unwrapped_buffer_for_trigger' = 0
    /\ s_buffers_per_second' = samples_per_second \div DATA_BUFFER_ENTRIES
    /\ UNCHANGED <<s_buffers, s_buffer_fifo, s_is_new_sequence,
                   g_trigger_triggered>>

\* What a mode switch leaves alone outside the ring and the mode module.
\* The histories start afresh with every session.
SwitchFrame ==
    /\ UNCHANGED <<gated_recording, min_sampling_time_s, pretrigger_time_s,
                   main_tick_count, pc, loc, should_close_file, batch_drained,
                   acqvars, chkvars, sidevars, tentvars>>

RingUntouched ==
    UNCHANGED <<s_mode, s_buffers_per_second, ringvars, fifovars, trigvars,
                s_is_gated, s_gate_released_ticks, s_is_new_sequence,
                g_trigger_triggered, pBuffer, putLog, getLog, hist>>

\* mode_main_processing has seen the switch in a new position for long
\* enough and calls switch_to_mode.  It runs in the slow part of the main
\* loop, between calls of the other main-loop functions and after the fast
\* loop has handled any trigger flag.
SwitchCall ==
    /\ mpc = "idle" /\ pc = "idle" /\ ~g_trigger_triggered
    /\ mode_hist.sessions < MaxSessions
    /\ \E switch_mode \in Modes \ {mode_s_mode} :
          mloc' = [mode |-> switch_mode]
    /\ mpc' = "close"
    /\ UNCHANGED <<mode_s_mode, s_data_processor, mode_hist>>
    /\ RingUntouched /\ SwitchFrame

\* Mutant of closed_processor: close leaves the registration alone.
closed_processor_kept(processor) == processor

\* The registration after a driver's close, which ends with
\* data_acquisition_set_processor(NULL).
closed_processor(processor) == NO_PROCESSOR

\* mode_driver->close() of the current mode, if there is one.
SwitchClose ==
    /\ mpc = "close"
    /\ s_data_processor' = IF mode_s_mode = MODE_NONE THEN s_data_processor
                           ELSE closed_processor(s_data_processor)
    /\ mpc' = "assign"
    /\ UNCHANGED <<mode_s_mode, mloc, mode_hist>>
    /\ RingUntouched /\ SwitchFrame

\* s_mode = mode;
SwitchAssign ==
    /\ mpc = "assign"
    /\ mode_s_mode' = mloc.mode
    /\ mpc' = "open"
    /\ UNCHANGED <<s_data_processor, mloc, mode_hist>>
    /\ RingUntouched /\ SwitchFrame

\* mode_driver->open() of the new mode, if there is one.
SwitchOpen ==
    /\ mpc = "open"
    /\ mpc' = "idle"
    /\ mode_hist' = [mode_hist EXCEPT !.sessions = @ + 1]
    /\ UNCHANGED <<mode_s_mode, mloc>>
    /\ SwitchFrame
    /\ IF mode_s_mode \in {MODE_MANUAL, MODE_AUTO}
       THEN /\ data_processor_buffers_reset_call(
                   IF mode_s_mode = MODE_AUTO THEN "TRIGGERED" ELSE "CONTINUOUS",
                   settings_get_logger_sampling_rate(6))
            /\ s_data_processor' = "data_processor_buffers"
            /\ pBuffer' = NULL
            /\ putLog' = <<>>
            /\ getLog' = <<>>
            /\ hist' = Hist0
       ELSE /\ s_data_processor' = IF mode_s_mode = MODE_USB
                                   THEN "data_processor_uac"
                                   ELSE s_data_processor
            /\ RingUntouched

switch_to_mode == SwitchCall \/ SwitchClose \/ SwitchAssign \/ SwitchOpen

\* Power on: no mode open, the ring as data_processor_buffers_init leaves it.
InitSessions ==
    /\ BufferInit({"TRIGGERED"}, {FALSE}, {0}, {1}, {1}, {tick_delta})
    /\ data_acquisition_reset
    /\ DetectorDefaults
    /\ mode_init

\* The acquirer dispatches half-frames to the registered processor.
InterruptSession ==
    /\ s_data_processor = "data_processor_buffers"
    /\ Interrupt({DATA_BUFFER_ENTRIES}, MaxFillSession)

\* The functions of the main loop that work on the ring while a ring mode
\* is open; the main context runs them one after the other.
MainSession ==
    /\ mpc = "idle"
    /\ mode_s_mode \in {MODE_MANUAL, MODE_AUTO}
    /\ \/ GetNextData
       \/ GetNextStart
       \/ PublishTrigger
       \/ data_processor_buffers_fast_main_processing
       \/ OnTrigger
       \/ MainPut

NextSessions ==
    \/ switch_to_mode
    \/ InterruptSession
    \/ MainSession

SpecSessions == InitSessions /\ [][NextSessions]_vars

\* The state of the ring that later behaviour depends on, as at power on.
RingPowerOn ==
    /\ s_active_buffer_index = 0
    /\ s_active_buffer_entry_count = 0
    /\ s_unwrapped_filled_buffer_counter = 0
    /\ s_buffer_fifo_next_read = 0
    /\ s_buffer_fifo_next_write = 0
    /\ s_buffer_fifo_count = 0
    /\ ~s_is_triggered
    /\ s_trigger_unwrapped_buffer_count = 0
    /\ s_final_unwrapped_buffer_for_trigger = 0
    /\ ~s_is_gated
    /\ s_gate_released_ticks = 0
    /\ ~s_is_new_sequence
    /\ ~g_trigger_triggered

\* C24: when manual or auto mode has been opened, every piece of ring state
\* that later behaviour depends on, the new-sequence flag of get_next and
\* the trigger flag included, has its power-on value.
C24_ResetRestoresPowerOn ==
    [][(SwitchOpen /\ mode_s_mode \in {MODE_MANUAL, MODE_AUTO})
          => RingPowerOn']_vars

\* C25: at most one processor is registered with the acquirer: the ring's
\* only while manual or auto mode is open, the USB audio one only while USB
\* mode is open, none while no mode is open.
C25_OneProcessorPerMode ==
    /\ s_data_processor \in {NO_PROCESSOR, "data_processor_buffers", "data_processor_uac"}
    /\ (s_data_processor = "data_processor_buffers")
          => mode_s_mode \in {MODE_MANUAL, MODE_AUTO}
    /\ (s_data_processor = "data_processor_uac") => mode_s_mode = MODE_USB
    /\ (mode_s_mode = MODE_NONE) => s_data_processor = NO_PROCESSOR
    /\ (mpc = "idle" /\ mode_s_mode \in {MODE_MANUAL, MODE_AUTO})
          => s_data_processor = "data_processor_buffers"
    /\ (mpc = "idle" /\ mode_s_mode = MODE_USB)
          => s_data_processor = "data_processor_uac"
    /\ (mpc \in {"assign", "open"}) => s_data_processor = NO_PROCESSOR

\* A ring mode was closed and USB mode opened after it.
C25_Witness ==
    /\ mode_hist.sessions = 2
    /\ mpc = "idle"
    /\ mode_s_mode = MODE_USB
    /\ s_data_processor = "data_processor_uac"
    /\ s_unwrapped_filled_buffer_counter > 0

\* ------------------------------------------------------------------------
\* gain.c: the logical gain range and the commands sent to the amplifier
\* ------------------------------------------------------------------------
\* s_logical_index is a uint16_t.
UINT16_RANGE == 65536

to_uint16(value) == value % UINT16_RANGE

s_gain_mapping == <<0, 1, 2, 4, 6>>

s_gain_db == <<0, 6, 12, 18, 24>>

GAIN_DB_STEPSIZE == 6

SETGAIN_CMD == 16384

SHUTDOWN_CMD == 8192

\* a | b on 16-bit values.
RECURSIVE BitOr16(_, _, _)
BitOr16(a, b, bits) ==
    IF bits = 0 THEN 0
    ELSE (IF a % 2 = 1 \/ b % 2 = 1 THEN 1 ELSE 0)
         + 2 * BitOr16(a \div 2, b \div 2, bits - 1)

\* What a read of a uint16_t table beyond its last element can give: the
\* read is undefined; the build gives whatever lies behind the table.
OutOfTableReads == {0, 65535}

\* s_gain_mapping[logical_gain_index] in set_gain.
raw_gain_indexes(logical_gain_index) ==
    IF logical_gain_index \in GAIN_MIN_RANGE_INDEX..GAIN_MAX_RANGE_INDEX
    THEN {s_gain_mapping[logical_gain_index + 1]}
    ELSE OutOfTableReads

GainFrame == UNCHANGED <<bufvars, g_trigger_triggered, acqvars, modevars,
                         acq_out, schedule, trigger_settings,
                         fft_squared_modulus,
                         triggered>>

\* The call is counted, its command (0: none) and its result are noted.
gain_returns(cmd, ret) ==
    /\ gain_hist.calls < MaxGainCalls
    /\ gain_hist' = [calls |-> gain_hist.calls + 1,
                     cmds |-> gain_hist.cmds + (IF cmd = 0 THEN 0 ELSE 1),
                     cmd |-> cmd, ret |-> ret]
    /\ GainFrame

\* set_gain(logical_gain_index): the command is sent over SPI.
set_gain(logical_gain_index, ret) ==
    \E raw_gain_index \in raw_gain_indexes(logical_gain_index) :
        gain_returns(BitOr16(SETGAIN_CMD, raw_gain_index, 16), ret)

gain_disable == gain_returns(SHUTDOWN_CMD, "void")

GainDisable ==
    /\ gain_disable
    /\ UNCHANGED s_logical_index

gain_reenable ==
    /\ set_gain(s_logical_index, "void")
    /\ UNCHANGED s_logical_index

gain_init ==
    /\ s_logical_index' = 3
    /\ gain_returns(0, "void")

\* Mutant of gain_set_index: the request is clipped to the table.
gain_set_index_clipped(gain_index) ==
    IF gain_index < GAIN_MIN_RANGE_INDEX THEN GAIN_MIN_RANGE_INDEX
    ELSE IF gain_index > GAIN_MAX_RANGE_INDEX THEN GAIN_MAX_RANGE_INDEX
    ELSE gain_index

\* s_logical_index = gain_index, an int stored in a uint16_t.
gain_set_index(gain_index) == to_uint16(gain_index)

gain_set(gain_index, disabled) ==
    /\ s_logical_index' = gain_set_index(gain_index)
    /\ IF disabled
       THEN gain_disable
       ELSE set_gain(s_logical_index', "void")

\* The request in dB limited to the table's range.
gain_db_clamped(gain_db) ==
    IF gain_db < s_gain_db[1] THEN s_gain_db[1]
    ELSE IF gain_db > s_gain_db[GAIN_MAX_RANGE_INDEX + 1]
         THEN s_gain_db[GAIN_MAX_RANGE_INDEX + 1]
         ELSE gain_db

gain_set_db(gain_db, disabled) ==
    gain_set((gain_db_clamped(gain_db) - s_gain_db[1]) \div GAIN_DB_STEPSIZE,
             disabled)

\* Mutant of gain_up_possible: the top range is stepped over.
gain_up_possible_at_max(index) == index <= GAIN_MAX_RANGE_INDEX

gain_up_possible(index) == index < GAIN_MAX_RANGE_INDEX

gain_up ==
    IF gain_up_possible(s_logical_index)
    THEN /\ s_logical_index' = to_uint16(s_logical_index + 1)
         /\ set_gain(s_logical_index', "true")
    ELSE /\ UNCHANGED s_logical_index
         /\ gain_returns(0, "false")

gain_down ==
    IF s_logical_index > GAIN_MIN_RANGE_INDEX
    THEN /\ s_logical_index' = s_logical_index - 1
         /\ set_gain(s_logical_index', "true")
    ELSE /\ UNCHANGED s_logical_index
         /\ gain_returns(0, "false")

\* clip_to_int_range of settings.c.
clip_to_int_range(value, min, max) ==
    IF value < min THEN min ELSE IF value > max THEN max ELSE value

\* Requests made of gain_set and gain_set_db.
GainIndexArgs == {-1, 0, 2, 4, 5}

GainDbArgs == {-6, 0, 13, 17, 24, 30}

GainSet == \E gain_index \in GainIndexArgs, disabled \in BOOLEAN :
               gain_set(gain_index, disabled)

\* streaming_start: the range comes from the settings, where it was clipped
\* when it was read.
GainSetFromSettings ==
    \E int_value \in GainIndexArgs, disabled \in BOOLEAN :
        gain_set(clip_to_int_range(int_value, 0, GAIN_MAX_RANGE_INDEX),
                 disabled)

GainSetDb == \E gain_db \in GainDbArgs, disabled \in BOOLEAN :
                 gain_set_db(gain_db, disabled)

\* Power on: s_logical_index is 0 until gain_init.
InitGain ==
    /\ BufferInit({"TRIGGERED"}, {FALSE}, {6}, {1}, {0}, {tick_delta})
    /\ data_acquisition_reset
    /\ mode_init
    /\ s_logical_index = 0
    /\ gain_hist = GainHist0
    /\ acq_out = AcqOut0
    /\ schedule = Schedule0
    /\ trigger_settings =
           [_trigger_thresholds |-> [i \in Buckets |-> SETTINGS_IGNORE_TRIGGER_VALUE],
            _trigger_flags |-> [i \in Buckets |-> FALSE],
            trigger_max_count |-> 16]
    /\ fft_squared_modulus = [i \in Buckets |-> 0]
    /\ triggered = [called |-> FALSE, value |-> FALSE]

\* The gain interface called with any request.
NextGain ==
    \/ gain_init
    \/ GainSet
    \/ GainSetDb
    \/ gain_up
    \/ gain_down
    \/ GainDisable
    \/ gain_reenable

SpecGain == InitGain /\ [][NextGain]_vars

\* The gain interface as the firmware calls it: ranges from the settings,
\* volumes from the USB host.
NextGainCallers ==
    \/ gain_init
    \/ GainSetFromSettings
    \/ GainSetDb
    \/ gain_up
    \/ gain_down
    \/ GainDisable
    \/ gain_reenable

SpecGainCallers == InitGain /\ [][NextGainCallers]_vars

\* C26: after any sequence of gain_init, gain_set, gain_set_db, gain_up and
\* gain_down calls with arbitrary integer arguments, the logical range index
\* is within [GAIN_MIN_RANGE_INDEX, GAIN_MAX_RANGE_INDEX], so that the
\* getters and the hardware gain mapping index inside their tables.
C26_IndexWithinTables ==
    s_logical_index \in GAIN_MIN_RANGE_INDEX..GAIN_MAX_RANGE_INDEX

\* C27: gain_up at the maximum range and gain_down at the minimum range
\* leave the range index unchanged, issue no gain command and return false;
\* in every other state they change the index by exactly one step, and
\* return true.
C27_StepsSaturate ==
    [][/\ gain_up =>
            IF s_logical_index = GAIN_MAX_RANGE_INDEX
            THEN /\ s_logical_index' = s_logical_index
                 /\ gain_hist'.cmds = gain_hist.cmds
                 /\ gain_hist'.ret = "false"
            ELSE /\ s_logical_index' = s_logical_index + 1
                 /\ gain_hist'.ret = "true"
       /\ gain_down =>
            IF s_logical_index = GAIN_MIN_RANGE_INDEX
            THEN /\ s_logical_index' = s_logical_index
                 /\ gain_hist'.cmds = gain_hist.cmds
                 /\ gain_hist'.ret = "false"
            ELSE /\ s_logical_index' = s_logical_index - 1
                 /\ gain_hist'.ret = "true"]_vars

\* A step up was refused at the maximum range after steps were made.
C27_Witness ==
    /\ s_logical_index = GAIN_MAX_RANGE_INDEX
    /\ gain_hist.ret = "false"
    /\ gain_hist.cmd = 0
    /\ gain_hist.cmds > 0

\* ------------------------------------------------------------------------
\* process_half_frame on the samples: scaling, overload, publication and the
\* call of the registered processor
\* ------------------------------------------------------------------------
SCALE_DOWN_DELTA == 24576

SCALE_DOWN_THRESHOLD_UPPER == SCALE_DOWN_DELTA

SCALE_DOWN_THRESHOLD_LOWER == -SCALE_DOWN_DELTA

ACQUISITION_OFFSET == 32768

ACQUISITION_LEFTSHIFT == 0

s_signal_offset_correction == 0

\* The samples of a half-frame in the model.
HALF_SAMPLES_PER_FRAME == 2

\* A value converted to sample_type_t, an int16_t.
to_int16(value) == ((value + 32768) % 65536) - 32768

\* ((value - offset) << leftshift) - s_signal_offset_correction
scaled_value(value, offset, leftshift) ==
    to_int16((value - offset) * (2 ^ leftshift) - s_signal_offset_correction)

overload(sample) ==
    sample > SCALE_DOWN_THRESHOLD_UPPER \/ sample < SCALE_DOWN_THRESHOLD_LOWER

\* Mutant of stored_sample: an overloaded sample is stored clipped.
stored_sample_clipped(sample) ==
    IF sample > SCALE_DOWN_THRESHOLD_UPPER THEN SCALE_DOWN_THRESHOLD_UPPER
    ELSE IF sample < SCALE_DOWN_THRESHOLD_LOWER THEN SCALE_DOWN_THRESHOLD_LOWER
    ELSE sample

\* *pDest++ = scaled_value
stored_sample(sample) == sample

\* Raw converter values: mid scale, and both sides of each threshold.
RawValues == {8191, 32768, 57344, 57345}

DmaHalves == [1..HALF_SAMPLES_PER_FRAME -> RawValues]

\* The processors a mode registers.
Processors == {NO_PROCESSOR, "data_processor_buffers", "data_processor_uac"}

\* One conversion callback: the half the DMA has just filled is scaled and
\* copied, an overload requests a blink of the red LED, the half is
\* published and passed to the registered processor.
process_half_frame_samples(is_first_half, dmabuffer, offset, leftshift) ==
    LET buffer_offset == IF is_first_half THEN 0 ELSE 1
        n == acq_hist.published + 1
        samples == [i \in 1..HALF_SAMPLES_PER_FRAME |->
                       scaled_value(dmabuffer[i], offset, leftshift)]
        overload_detected == \E i \in 1..HALF_SAMPLES_PER_FRAME :
                                 overload(samples[i])
        called == s_data_processor # NO_PROCESSOR
        acquirer ==
            /\ s_raw_buffer_q15' =
                   [s_raw_buffer_q15 EXCEPT ![buffer_offset] =
                       [gen |-> n, hot |-> {},
                        samples |-> [i \in 1..HALF_SAMPLES_PER_FRAME |->
                                        stored_sample(samples[i])]]]
            /\ g_raw_half_frame' = buffer_offset
            /\ g_raw_half_frame_counter' =
                   next_generation(g_raw_half_frame_counter)
            /\ g_raw_half_frame_ready' = TRUE
            /\ acq_hist' = [acq_hist EXCEPT !.published = n]
            /\ acq_out' =
                   [frames |-> acq_out.frames + 1,
                    overload |-> overload_detected,
                    dmabuffer |-> dmabuffer,
                    blinks |-> acq_out.blinks
                                  + (IF overload_detected THEN 1 ELSE 0),
                    calls |-> acq_out.calls + (IF called THEN 1 ELSE 0),
                    processor |-> IF called THEN s_data_processor
                                  ELSE acq_out.processor,
                    buffer_offset |-> IF called THEN buffer_offset
                                      ELSE acq_out.buffer_offset]
            /\ UNCHANGED <<s_enable_capture, tpc, tloc, chkvars, modevars,
                           gain_hist, schedule>>
    IN  /\ s_enable_capture
        /\ acq_hist.published < MaxHalfFrames
        /\ g_raw_half_frame_counter < INT_MAX
        /\ IF s_data_processor = "data_processor_buffers"
           THEN data_processor_buffers_from(DATA_BUFFER_ENTRIES \div 2,
                                            MaxHalfFrames + 1, acquirer)
           ELSE /\ acquirer
                /\ UNCHANGED <<bufvars, g_trigger_triggered>>

\* HAL_ADC_ConvHalfCpltCallback and HAL_ADC_ConvCpltCallback in turn.
HalfFrameSamples ==
    \E dmabuffer \in DmaHalves :
        process_half_frame_samples(g_raw_half_frame # 0, dmabuffer,
                                   ACQUISITION_OFFSET, ACQUISITION_LEFTSHIFT)

\* Capture is enabled in one of the modes: none (no processor), manual and
\* auto (the ring), USB.
InitOverload ==
    /\ \E mode \in {"CONTINUOUS", "TRIGGERED"} :
          BufferInit({mode}, {FALSE}, {6}, {1}, {0}, {tick_delta})
    /\ DetectorDefaults
    /\ s_enable_capture = TRUE
    /\ g_raw_half_frame = NULL
    /\ g_raw_half_frame_counter = 0
    /\ g_raw_half_frame_ready = FALSE
    /\ s_raw_buffer_q15 =
           [h \in 0..1 |-> [gen |-> 0, hot |-> {},
                            samples |-> [i \in 1..HALF_SAMPLES_PER_FRAME |-> 0]]]
    /\ tpc = "idle"
    /\ tloc = TLoc0
    /\ acq_hist = AcqHist0
    /\ s_data_processor \in Processors
    /\ mode_s_mode = (CASE s_data_processor = NO_PROCESSOR -> MODE_NONE
                        [] s_data_processor = "data_processor_uac" -> MODE_USB
                        [] OTHER -> IF s_mode = "CONTINUOUS" THEN MODE_MANUAL
                                    ELSE MODE_AUTO)
    /\ mpc = "idle"
    /\ mloc = [mode |-> MODE_NONE]
    /\ mode_hist = ModeHist0
    /\ s_tentative_new_mode = MODE_NONE
    /\ s_tentative_tick_count = 0

NextOverload == HalfFrameSamples

SpecOverload == InitOverload /\ [][NextOverload]_vars

\* The half-frame the last callback handled contained an overload.
OverloadedHalfFrame ==
    /\ acq_out.frames > 0
    /\ acq_out.overload

\* C28: an overload in a half-frame changes nothing except the LED request:
\* the samples stored, the increment of the generation counter, the ready
\* flag and the call of the registered processor are what they are for a
\* half-frame without one.
C28_OverloadOnlyBlinks ==
    [][acq_out'.frames = acq_out.frames + 1 =>
         LET half == 1 - (IF g_raw_half_frame = 0 THEN 0 ELSE 1)
         IN  /\ acq_out'.blinks =
                    acq_out.blinks + (IF OverloadedHalfFrame' THEN 1 ELSE 0)
             /\ g_raw_half_frame' = half
             /\ s_raw_buffer_q15'[half].samples =
                    [i \in 1..HALF_SAMPLES_PER_FRAME |->
                        scaled_value(acq_out'.dmabuffer[i], ACQUISITION_OFFSET,
                                     ACQUISITION_LEFTSHIFT)]
             /\ g_raw_half_frame_counter' = g_raw_half_frame_counter + 1
             /\ g_raw_half_frame_ready'
             /\ IF s_data_processor = NO_PROCESSOR
                THEN acq_out'.calls = acq_out.calls
                ELSE /\ acq_out'.calls = acq_out.calls + 1
                     /\ acq_out'.processor = s_data_processor
                     /\ acq_out'.buffer_offset = half
             /\ IF s_data_processor = "data_processor_buffers"
                THEN hist'.samples = hist.samples + DATA_BUFFER_ENTRIES \div 2
                ELSE hist'.samples = hist.samples]_vars

\* An overloaded half-frame was stored, published and passed to the ring.
C28_Witness ==
    /\ OverloadedHalfFrame
    /\ acq_out.blinks > 0
    /\ acq_out.processor = "data_processor_buffers"
    /\ g_raw_half_frame_ready
    /\ hist.samples > 0
    /\ \E i \in 1..HALF_SAMPLES_PER_FRAME :
          overload(s_raw_buffer_q15[g_raw_half_frame].samples[i])

\* C29: for every data token t that dataprocessor_buffers_get_next yields,
\* the returned pointer is the physical slot into which the samples of
\* unwrapped fill index t were written, slot t mod NUM_BUFFERS.
C29_YieldsSlotOfToken ==
    [][(pc = "gn_yield" /\ pc' = "idle")
        => pBuffer' = loc.t % NUM_BUFFERS]_vars

\* The slot has been filled to its end at least once since the reset: the
\* slots are filled in the order 0, 1, 2, ...
CompletelyFilled(slot, counter) == slot < counter

\* C30: dataprocessor_buffers_get_next never returns a slot that has not
\* been completely filled with samples since the last reset, from the very
\* first token on.
C30_YieldsOnlyFilledSlots ==
    [][(pc = "gn_yield" /\ pc' = "idle")
        => CompletelyFilled(pBuffer', s_unwrapped_filled_buffer_counter')]_vars

\* gain_get_db: the dB value of the current range.
gain_get_db == s_gain_db[s_logical_index + 1]

Abs(x) == IF x < 0 THEN -x ELSE x

\* No supported dB value is closer to the request than db.
NearestSupported(db, request) ==
    \A range \in GAIN_MIN_RANGE_INDEX..GAIN_MAX_RANGE_INDEX :
        Abs(db - request) <= Abs(s_gain_db[range + 1] - request)

\* C39: gain_set_db converts the requested dB value to the nearest supported
\* gain: after clamping to [0, 24] dB the selected range is the one whose dB
\* value is closest to the request, and gain_get_db reports that value.
C39_NearestSupportedGain ==
    [][\A gain_db \in GainDbArgs, disabled \in BOOLEAN :
          gain_set_db(gain_db, disabled) =>
              /\ s_logical_index' \in GAIN_MIN_RANGE_INDEX..GAIN_MAX_RANGE_INDEX
              /\ NearestSupported(gain_get_db', gain_db_clamped(gain_db))]_vars

\* C33: after every call of data_processor_buffers with at most
\* DATA_BUFFER_ENTRIES samples the active entry count is within
\* 0..DATA_BUFFER_ENTRIES - 1, the active slot index is the fill counter
\* modulo NUM_BUFFERS and, while not gated, fill counter *
\* DATA_BUFFER_ENTRIES + active entry count is the number of samples
\* appended since reset.
C33_AppendAccounting ==
    /\ s_active_buffer_entry_count >= 0
    /\ s_active_buffer_entry_count < DATA_BUFFER_ENTRIES
    /\ s_active_buffer_index = s_unwrapped_filled_buffer_counter % NUM_BUFFERS
    /\ ~s_is_gated =>
           s_unwrapped_filled_buffer_counter * DATA_BUFFER_ENTRIES
               + s_active_buffer_entry_count = hist.samples

\* A block was split over the end of a slot after the ring had wrapped.
C33_Witness ==
    /\ s_unwrapped_filled_buffer_counter = NUM_BUFFERS + 2
    /\ s_active_buffer_index = 2
    /\ s_active_buffer_entry_count = DATA_BUFFER_ENTRIES \div 4
    /\ hist.samples = (NUM_BUFFERS + 2) * DATA_BUFFER_ENTRIES
                          + DATA_BUFFER_ENTRIES \div 4

\* The tokens in the FIFO, oldest first.
FifoTokens ==
    [k \in 1..s_buffer_fifo_count |->
        s_buffer_fifo[(s_buffer_fifo_next_read + k - 1) % BUFFER_FIFO_LENGTH]]

\* The slot the samples of fill index t were written to still holds them.
NotOverwritten(t) == s_buffers[t % NUM_BUFFERS] = t

\* C31: with gated recording, when the gate engages every data token
\* enqueued for the batch refers to data that has not been overwritten, and
\* none of them is one that dataprocessor_buffers_get_next discards as
\* stale during the drain.
C31_GatedBatchIntact ==
    (gated_recording /\ s_is_gated) =>
        \A k \in 1..s_buffer_fifo_count :
            IsData(FifoTokens[k]) =>
                /\ NotOverwritten(FifoTokens[k])
                /\ ~is_expired(FifoTokens[k], s_unwrapped_filled_buffer_counter)

\* The test at the head of data_processor_buffers_on_trigger holds: the
\* gate is set, or it was released fewer than tick_delta main ticks ago.
TriggerIgnored ==
    s_is_gated \/ main_tick_count < s_gate_released_ticks + tick_delta

\* The START tokens enqueued so far.
StartsPut ==
    {i \in 1..Len(putLog) : putLog[i][1] = BUFFERFIFO_START_SEQUENCE}

\* C32: a trigger flag consumed while s_is_gated is true, or fewer than 10
\* main ticks after the gate was released, changes no ring state:
\* s_is_triggered, the final index and the FIFO stay as they are; the flag
\* itself is cleared.
C32_IgnoredTriggerChangesNothing ==
    [][/\ (pc = "idle" /\ pc' = "ot_gate") =>
              /\ ~g_trigger_triggered'
              /\ UNCHANGED <<trigvars, fifovars>>
       /\ (pc = "ot_gate" /\ pc' # "ot_gate" /\ TriggerIgnored) =>
              /\ pc' = "idle"
              /\ ~g_trigger_triggered'
              /\ UNCHANGED <<trigvars, fifovars>>]_vars

\* Two triggers were consumed, one started a sequence that was never
\* retriggered, the batch was drained and the gate released less than
\* tick_delta ticks ago: the other trigger was ignored.
C32_Witness ==
    /\ pc = "idle"
    /\ ~g_trigger_triggered
    /\ hist.published = 2
    /\ hist.seq_retrig = "none"
    /\ ~s_is_gated
    /\ s_gate_released_ticks > tick_delta
    /\ main_tick_count < s_gate_released_ticks + tick_delta
    /\ Cardinality(StartsPut) = 2

\* C35: starting a triggered sequence is atomic with respect to slot
\* completion: a slot the interrupt completes while the main loop is in the
\* new-trigger branch of on_trigger is still enqueued, once and in order, so
\* that the data tokens of a sequence are consecutive from the backfilled
\* indices into the live ones.
C35_SequenceHasNoGap ==
    s_mode = "TRIGGERED" =>
        \A i \in 1..(Len(putLog) - 1) :
            (IsData(PutTokens[i]) /\ IsData(PutTokens[i + 1]))
                => PutTokens[i + 1] = PutTokens[i] + 1

\* on_trigger returns from one of the branches behind its gate test.
AcceptedTriggerReturns ==
    /\ pc \in {"ot_retrig_wr", "ot_set"}
    /\ pc' = "idle"

\* C36: no accepted trigger is lost: whenever on_trigger handles a trigger
\* that is not ignored because of gating, the ring is in the triggered state
\* when on_trigger returns, with the final index at least the minimum
\* recording duration ahead, even when the interrupt ends the current
\* window between on_trigger's test of s_is_triggered and its update of the
\* final index.
C36_AcceptedTriggerRecords ==
    [][AcceptedTriggerReturns =>
          /\ s_is_triggered'
          /\ s_final_unwrapped_buffer_for_trigger' >= loc.fin]_vars

\* One trigger, soon after the mode is opened.
PublishTriggerFirst ==
    /\ hist.published = 0
    /\ PublishTriggerEarly

\* on_trigger for a trigger that is not a retrigger.
OnTriggerNew ==
    \/ OnTriggerGate \/ OnTriggerTest
    \/ OnTriggerNewNote \/ OnTriggerNewPretrigger \/ OnTriggerNewInitial
    \/ OnTriggerNewFinal \/ OnTriggerLoop \/ OnTriggerSet

NextLazyLoop ==
    \/ InterruptLazy
    \/ RecordingLazy
    \/ PublishTriggerFirst
    \/ data_processor_buffers_fast_main_processing
    \/ OnTriggerNew
    \/ MainPut

\* Slots keep completing and the main loop keeps running: it calls
\* dataprocessor_buffers_get_next over and over, and every function it has
\* entered returns.
LazyLoopRuns ==
    /\ WF_vars(InterruptLazy)
    /\ WF_vars(RecordingLazy)
    /\ WF_vars(data_processor_buffers_fast_main_processing)
    /\ WF_vars(OnTriggerNew)
    /\ WF_vars(MainPut)

SpecLazyLoop == InitAuto /\ [][NextLazyLoop]_vars /\ LazyLoopRuns

\* There is a token in the FIFO in non-gated mode.
TokenWaiting ==
    /\ ~gated_recording
    /\ s_buffer_fifo_count > 0

\* C34: in non-gated mode, if slots keep completing and
\* dataprocessor_buffers_get_next keeps being called, every token that is
\* enqueued is eventually removed from the FIFO: the FIFO is empty again
\* and again, so that no token, deferred by the lazy-read rule or not, stays
\* at its head for ever.
C34_TokensLeaveTheFifo == TokenWaiting ~> (s_buffer_fifo_count = 0)

\* The first data token of a sequence had to wait for the write slot to come
\* close; it has been yielded since, with every token enqueued after it,
\* up to the END.
C34_Witness ==
    /\ ~gated_recording
    /\ s_buffer_fifo_count = 0
    /\ hist.last = "end"
    /\ Len(putLog) >= 3
    /\ Len(getLog) = Len(putLog)
    /\ getLog[1] = BUFFERFIFO_START_SEQUENCE
    /\ getLog[2] = 0
    /\ s_unwrapped_filled_buffer_counter >= NUM_BUFFERS - MAXIMUM_READ_LEAD

\* ---------------------------------------------------------------------
\* The debounce of the mode switch
\* ---------------------------------------------------------------------

\* The longest run of the main loop followed for the debounce, in ticks.
MaxModeTicks == 54

MAIN_LOOP_DELAY_MS == 20

\* One second of main loop ticks.
MODE_SWITCH_DELAY_TICKS == 1000 \div MAIN_LOOP_DELAY_MS

\* The positions the mode pins are read in: auto, manual, and neither of
\* the two (the switch between positions).
SwitchPositions == {MODE_NONE, MODE_MANUAL, MODE_AUTO}

\* What one call does to the tentative mode and its count when the position
\* read differs from the current mode after the first tick.
tentative_count_after(switch_mode) ==
    IF s_tentative_new_mode # switch_mode THEN 0
    ELSE s_tentative_tick_count + 1

\* One call of mode_main_processing(main_tick_count), followed by the
\* main_tick_count++ that ends the pass of the main loop.  The call reads
\* the switch; a position other than the current mode is adopted at once on
\* the first tick, and otherwise becomes the tentative mode, is counted, and
\* is adopted when the count reaches the delay.  A reading of the current
\* mode's position changes nothing.
mode_main_processing ==
    /\ mpc = "idle" /\ pc = "idle" /\ ~g_trigger_triggered
    /\ main_tick_count < MaxModeTicks
    /\ \E switch_mode \in SwitchPositions :
          /\ mode_hist' = [mode_hist EXCEPT
                 !.position = switch_mode,
                 !.run = IF switch_mode = mode_hist.position THEN @ + 1 ELSE 1]
          /\ IF switch_mode = mode_s_mode
             THEN UNCHANGED <<tentvars, mloc, mpc>>
             ELSE IF main_tick_count = 0
             THEN /\ mloc' = [mode |-> switch_mode]
                  /\ mpc' = "close"
                  /\ UNCHANGED tentvars
             ELSE /\ s_tentative_new_mode' = switch_mode
                  /\ s_tentative_tick_count' = tentative_count_after(switch_mode)
                  /\ IF s_tentative_tick_count' >= MODE_SWITCH_DELAY_TICKS
                     THEN /\ mloc' = [mode |-> s_tentative_new_mode']
                          /\ mpc' = "close"
                     ELSE UNCHANGED <<mloc, mpc>>
    /\ main_tick_count' = main_tick_count + 1
    /\ UNCHANGED <<mode_s_mode, s_data_processor>>
    /\ UNCHANGED <<gated_recording, min_sampling_time_s, pretrigger_time_s,
                   pc, loc, should_close_file, batch_drained,
                   acqvars, chkvars, sidevars>>
    /\ RingUntouched

NextDebounce ==
    \/ mode_main_processing
    \/ SwitchClose
    \/ SwitchAssign
    \/ SwitchOpen

\* Power on, before the first pass of the main loop.
InitDebounce ==
    /\ BufferInit({"TRIGGERED"}, {FALSE}, {0}, {1}, {1}, {0})
    /\ data_acquisition_reset
    /\ DetectorDefaults
    /\ mode_init

SpecDebounce == InitDebounce /\ [][NextDebounce]_vars

\* A call of mode_main_processing after the first tick that decides to
\* switch mode.
DebouncedSwitch ==
    /\ mode_main_processing
    /\ main_tick_count > 0
    /\ mpc' = "close"

\* C37: after the first tick the mode changes only when the switch has been
\* read in the new position for MODE_SWITCH_DELAY_TICKS consecutive calls;
\* readings separated by a return to the current mode's position are not
\* added together.
C37_SwitchNeedsConsecutiveReadings ==
    [][DebouncedSwitch =>
          /\ mode_hist'.position = mloc'.mode
          /\ mode_hist'.run >= MODE_SWITCH_DELAY_TICKS]_vars

\* ---------------------------------------------------------------------
\* The recording schedule
\* ---------------------------------------------------------------------

\* The most intervals parsed from one schedule.
MaxIntervals == 3

MAX_SCHEDULE_INTERVALS == 20

\* The times of day, in minutes, that "from" and "to" are drawn from.
ScheduleMinutes == {0, 60, 90, 120}

\* The interval made of one "from"/"to" pair: an end before the start spans
\* midnight.
parsed_interval(m_start, m_end) ==
    [start_minutes |-> m_start,
     duration_minutes |-> IF m_end - m_start < 0
                          THEN m_end - m_start + 24 * 60
                          ELSE m_end - m_start]

max_int(i, j) == IF i > j THEN i ELSE j

\* The orders qsort may leave the intervals in: ascending start time, with
\* intervals of equal start in any order.
sorted_orders(intervals) ==
    LET n == Len(intervals)
    IN  {p \in [1..n -> 1..n] :
            /\ \A i, j \in 1..n : i # j => p[i] # p[j]
            /\ \A i \in 1..n : i < n =>
                  intervals[p[i]].start_minutes
                      <= intervals[p[i + 1]].start_minutes}

\* The loop over sorted_intervals[i..], with the merged interval so far in
\* start and duration, and the final copy after the loop.
RECURSIVE merge_from(_, _, _, _, _)
merge_from(sorted_intervals, i, start, duration, resultant) ==
    IF i > Len(sorted_intervals)
    THEN Append(resultant,
                [start_minutes |-> start, duration_minutes |-> duration])
    ELSE LET pI == sorted_intervals[i]
         IN  IF pI.start_minutes > start + duration
             THEN merge_from(sorted_intervals, i + 1,
                             pI.start_minutes, pI.duration_minutes,
                             Append(resultant,
                                    [start_minutes |-> start,
                                     duration_minutes |-> duration]))
             ELSE merge_from(sorted_intervals, i + 1, start,
                             max_int(duration,
                                     pI.start_minutes + pI.duration_minutes),
                             resultant)

\* The intervals written to resultant_intervals for one outcome of the sort.
calculate_resultant_intervals(intervals, order) ==
    IF Len(intervals) = 0 THEN <<>>
    ELSE LET sorted_intervals == [i \in 1..Len(intervals) |-> intervals[order[i]]]
         IN  merge_from(sorted_intervals, 2,
                        sorted_intervals[1].start_minutes,
                        sorted_intervals[1].duration_minutes, <<>>)

\* settings_parse_and_normalize_schedule reads one more "from"/"to" pair.
ParseInterval ==
    /\ schedule.resultant_count = -1
    /\ Len(schedule.intervals) < MaxIntervals
    /\ Len(schedule.intervals) < MAX_SCHEDULE_INTERVALS
    /\ \E m_start, m_end \in ScheduleMinutes :
          schedule' = [schedule EXCEPT
              !.intervals = Append(@, parsed_interval(m_start, m_end))]
    /\ UNCHANGED <<bufvars, g_trigger_triggered, acqvars, chkvars, modevars,
                   gain_hist, acq_out>>

\* The tokens are used up: settings_parse_and_normalize_schedule returns
\* calculate_resultant_intervals(intervals, interval_index, ...).
NormalizeSchedule ==
    /\ schedule.resultant_count = -1
    /\ \E order \in sorted_orders(schedule.intervals) :
          LET resultant ==
                  calculate_resultant_intervals(schedule.intervals, order)
          IN  schedule' = [schedule EXCEPT
                  !.resultant_intervals = resultant,
                  !.resultant_count = Len(resultant)]
    /\ UNCHANGED <<bufvars, g_trigger_triggered, acqvars, chkvars, modevars,
                   gain_hist, acq_out>>

NextSchedule == ParseInterval \/ NormalizeSchedule

SpecSchedule == InitSessions /\ [][NextSchedule]_vars

\* The last minute of an interval.
interval_end(interval) == interval.start_minutes + interval.duration_minutes

\* Minute m lies in one of the intervals.
Covers(intervals, m) ==
    \E i \in 1..Len(intervals) :
        /\ intervals[i].start_minutes <= m
        /\ m <= interval_end(intervals[i])

\* The minutes at which the coverage of a list of intervals can change.
Breakpoints(intervals) ==
    UNION {{intervals[i].start_minutes, interval_end(intervals[i]) + 1} :
               i \in 1..Len(intervals)}

SortedByStart(intervals) ==
    \A i \in 1..Len(intervals) : i < Len(intervals) =>
        intervals[i].start_minutes < intervals[i + 1].start_minutes

NonOverlapping(intervals) ==
    \A i \in 1..Len(intervals) : i < Len(intervals) =>
        interval_end(intervals[i]) < intervals[i + 1].start_minutes

SameUnion(a, b) ==
    \A m \in Breakpoints(a) \cup Breakpoints(b) : Covers(a, m) <=> Covers(b, m)

\* C38: the intervals calculate_resultant_intervals returns are sorted by
\* start, do not overlap one another, and cover exactly the minutes the
\* intervals passed in cover.
C38_ResultantIsUnion ==
    schedule.resultant_count >= 0 =>
        /\ schedule.resultant_count = Len(schedule.resultant_intervals)
        /\ SortedByStart(schedule.resultant_intervals)
        /\ NonOverlapping(schedule.resultant_intervals)
        /\ SameUnion(schedule.resultant_intervals, schedule.intervals)

\* The part of C38 about order and overlap alone.
ResultantSortedDisjoint ==
    schedule.resultant_count >= 0 =>
        /\ SortedByStart(schedule.resultant_intervals)
        /\ NonOverlapping(schedule.resultant_intervals)

====
